---- MODULE Spec2Model ----
(***************************************************************************)
(* A model of the Crucible game system: the actor's resource pools, the    *)
(* token engagement sets of the canvas layer, the turn lifecycle of active *)
(* effects, defense testing and character advancement.                     *)
(*                                                                         *)
(* Each part of the program has its own specification (SpecRes, SpecTok,   *)
(* ...) over its own variables; the variables of the other parts stay at   *)
(* their initial value.                                                    *)
(***************************************************************************)
EXTENDS Integers, Sequences, FiniteSets, TLC

VARIABLES
  resources,    \* actor.system.resources: pool name -> [value, max]
  lastCall,     \* observation: the arguments and prior pools of the last alterResources call
  placed,       \* token id -> "absent" | "present" | "deleted": the scene's token documents
  pos,          \* token id -> grid cell of document.x/y
  incap,        \* tokens whose actor isIncapacitated or isBroken
  engaged,      \* client -> token id -> token.engaged on that client's canvas
  activeGM,     \* game.users.activeGM: a user, or 0 for null
  canvasId,     \* client -> canvas.id, the scene the client views
  commitCalls,  \* observation: <<client, token>> for each actor.updateFlanking of the last event
  round,        \* game.combat.round
  phase,        \* where the actor's turn stands in the round: "before" | "turn" | "after"
  effects,      \* effect id -> the active effect on the actor, with where it was removed
  resist,       \* this.resistances[damageType].total
  status,       \* actor.system.status: the flags set since the actor's turn began
  reactions,    \* observation: the reactions the actor used in the encounter, in order, with the focus cost each was prepared with
  defenses,     \* actor.system.defenses
  lastTest,     \* observation: the arguments, the drawn number and the result of the last testDefense
  actor,        \* the stored advancement fields of actor.system: level, details, abilities, skill, talents
  lastAdv,      \* observation: the last advancement operation, its outcome and what it found
  items,        \* game.items: the id of each world item -> its name
  lastStd,      \* observation: how the last standardizeItemIds ended and the world items it found
  itemTypes,    \* actor.itemTypes: the owned talent and armor items, in the order of their creation
  derived,      \* what the last preparation pass left on the actor: points, talentIds, grimoire, equipment, actions
  lastArmor,    \* observation: the arguments of the last equipArmor call and the items before it
  config,       \* SYSTEM: table -> entry -> its label and abbreviation
  frozen,       \* the tables Object.freeze has frozen
  hooks,        \* the startup hooks that have run
  lastSet,      \* observation: the last assignment to an entry of a table and how it ended
  weaponFlags,  \* the owned weapon items whose system.equipped is true
  combatant,    \* whether the actor has a combatant in the combat
  lastEquip,    \* observation: the last equipWeapon, how it ended and what it found
  connected,    \* the users connected to the world, one client each
  combat,       \* game.combat: turn and round
  update,       \* the combat update the clients are handling: its data and this.previous
  pending,      \* the clients that have not yet run _onUpdate for the update
  begun,        \* the users whose client began the actor's turn for the update, in order
  lastAttack,   \* observation: the roll the last weapon attack returned: result, critical failure, damage
  spell,        \* the transient CrucibleSpell action prepared last: its composition, cost, _trueCost, damage, effects, warnings
  lastCast,     \* observation: the roll of the last castSpell and the changes dealDamage handed to alterResources
  rollData,     \* this.roll.data of the check dialog: its boons and banes objects
  lastClick,    \* observation: the last action clicked in the dialog and the roll data it found
  loadout,      \* actor.equipment.weapons: the weapon in the main hand and in the off hand
  loaded,       \* the weapon items whose system.loaded is true
  lastReload    \* observation: how the last use of the reload action ended and what was loaded before

resVars == <<resources, lastCall>>
tokVars == <<placed, pos, incap, engaged, activeGM, canvasId, commitCalls>>
effVars == <<round, phase, effects, resist, status, reactions>>
defVars == <<defenses, lastTest>>
advVars == <<actor, lastAdv>>
idsVars == <<items, lastStd>>
prepVars == <<itemTypes, derived, lastArmor>>
cfgVars == <<config, frozen, hooks, lastSet>>
equipVars == <<weaponFlags, combatant, lastEquip>>
combatVars == <<connected, combat, update, pending, begun>>
atkVars == <<lastAttack>>
spellVars == <<spell>>
castVars == <<lastCast>>
dlgVars == <<rollData, lastClick>>
reloadVars == <<loadout, loaded, lastReload>>
vars == <<resVars, tokVars, effVars, defVars, advVars, idsVars, prepVars, cfgVars, equipVars, combatVars, atkVars, spellVars, castVars, dlgVars, reloadVars>>
\* What the actions of each part leave alone
NotRes ==
  <<tokVars, effVars, defVars, advVars, idsVars, prepVars, cfgVars,
    equipVars, combatVars, atkVars, spellVars, castVars, dlgVars,
    reloadVars>>
NotTok ==
  <<resVars, effVars, defVars, advVars, idsVars, prepVars, cfgVars,
    equipVars, combatVars, atkVars, spellVars, castVars, dlgVars,
    reloadVars>>
NotEff ==
  <<lastCall, tokVars, defVars, advVars, idsVars, prepVars, cfgVars,
    equipVars, combatVars, atkVars, spellVars, castVars, dlgVars,
    reloadVars>>
NotDef ==
  <<resVars, tokVars, effVars, advVars, idsVars, prepVars, cfgVars,
    equipVars, combatVars, atkVars, spellVars, castVars, dlgVars,
    reloadVars>>
NotAdv ==
  <<lastCall, tokVars, effVars, defVars, idsVars, prepVars, cfgVars,
    equipVars, combatVars, atkVars, spellVars, castVars, dlgVars,
    reloadVars>>
NotIds ==
  <<resVars, tokVars, effVars, defVars, advVars, prepVars, cfgVars,
    equipVars, combatVars, atkVars, spellVars, castVars, dlgVars,
    reloadVars>>
NotPrep ==
  <<resVars, tokVars, effVars, defVars, advVars, idsVars, cfgVars,
    equipVars, combatVars, atkVars, spellVars, castVars, dlgVars,
    reloadVars>>
NotCfg ==
  <<resVars, tokVars, effVars, defVars, advVars, idsVars, prepVars,
    equipVars, combatVars, atkVars, spellVars, castVars, dlgVars,
    reloadVars>>
NotEquip ==
  <<tokVars, effVars, defVars, advVars, idsVars, prepVars, cfgVars,
    combatVars, atkVars, spellVars, castVars, dlgVars, reloadVars>>
NotCombat ==
  <<resVars, tokVars, effVars, defVars, advVars, idsVars, prepVars,
    cfgVars, equipVars, atkVars, spellVars, castVars, dlgVars, reloadVars>>
NotAtk ==
  <<resVars, tokVars, effVars, defVars, advVars, idsVars, prepVars,
    cfgVars, equipVars, combatVars, spellVars, castVars, dlgVars,
    reloadVars>>
NotSpell ==
  <<resVars, tokVars, effVars, defVars, advVars, idsVars, prepVars,
    cfgVars, equipVars, combatVars, atkVars, castVars, dlgVars, reloadVars>>
NotCast ==
  <<lastCall, tokVars, effVars, defVars, advVars, idsVars, prepVars,
    cfgVars, equipVars, combatVars, atkVars, spellVars, dlgVars, reloadVars>>
NotDlg ==
  <<resVars, tokVars, effVars, defVars, advVars, idsVars, prepVars,
    cfgVars, equipVars, combatVars, atkVars, spellVars, castVars,
    reloadVars>>
NotReload ==
  <<resVars, tokVars, effVars, defVars, advVars, idsVars, prepVars,
    cfgVars, equipVars, combatVars, atkVars, spellVars, castVars,
    dlgVars>>

(***************************************************************************)
(* Helpers                                                                 *)
(***************************************************************************)
Min(a, b) == IF a < b THEN a ELSE b
Max(a, b) == IF a > b THEN a ELSE b

\* Math.clamped(num, min, max) of the host
clamped(num, lo, hi) == Min(hi, Max(num, lo))

(***************************************************************************)
(* Resource pools (CrucibleActor.alterResources)                           *)
(***************************************************************************)
\* Bounds of the resource model
MaxPool == 1
MaxDelta == 2

\* The keys of SYSTEM.RESOURCES
RESOURCES == {"health", "wounds", "morale", "madness", "action", "focus", "heroism"}

\* The maximum of each pool: the reserve pools that take overflow are twice as
\* deep as the active pools, so that a doubled overflow is not always clamped.
PoolMax(p) ==
  IF p \in {"wounds", "madness"} THEN 2 * MaxPool
  ELSE IF p \in {"health", "morale"} THEN MaxPool
  ELSE 1

\* The deltas a call may carry: a loss of every size up to MaxDelta, and a gain
Deltas == {-MaxDelta, -1, 1}

\* A changes object is an ordered list of distinct keys (Object.entries order)
ChangeEntries == [name : RESOURCES, delta : Deltas]
ChangeMaps ==
  {<<e>> : e \in ChangeEntries} \cup
  {c \in ChangeEntries \X ChangeEntries : c[1].name # c[2].name}

NoCall == [op |-> "none"]

\* updates[key] = v on the updates object (a later write of a key replaces an earlier one)
SetUpdate(updates, key, v) == (key :> v) @@ updates

\* AlterEntry with the regular update written unclamped
AlterEntryUnclamped(r, updates, resourceName, delta) ==
  LET resource == r[resourceName]
      uncapped == resource.value + delta
      overflow == Min(uncapped, 0)
      u1 == IF resourceName = "health" /\ overflow # 0
            THEN SetUpdate(updates, "wounds", clamped(r["wounds"].value - overflow, 0, r["wounds"].max))
            ELSE updates
      u2 == IF resourceName = "morale" /\ overflow # 0
            THEN SetUpdate(u1, "madness", clamped(r["madness"].value - overflow, 0, r["madness"].max))
            ELSE u1
  IN SetUpdate(u2, resourceName, uncapped)

\* One iteration of the loop over Object.entries(changes): the writes into updates
AlterEntry(r, updates, resourceName, delta) ==
  LET resource == r[resourceName]
      uncapped == resource.value + delta
      overflow == Min(uncapped, 0)
      u1 == IF resourceName = "health" /\ overflow # 0
            THEN SetUpdate(updates, "wounds", clamped(r["wounds"].value - overflow, 0, r["wounds"].max))
            ELSE updates
      u2 == IF resourceName = "morale" /\ overflow # 0
            THEN SetUpdate(u1, "madness", clamped(r["madness"].value - overflow, 0, r["madness"].max))
            ELSE u1
  IN SetUpdate(u2, resourceName, clamped(uncapped, 0, resource.max))

\* The updates object alterResources hands to this.update, for the given changes
RECURSIVE AlterUpdates(_, _, _)
AlterUpdates(r, changes, updates) ==
  IF changes = <<>> THEN updates
  ELSE AlterUpdates(r, Tail(changes),
                    AlterEntry(r, updates, Head(changes).name, Head(changes).delta))

EmptyUpdates == [k \in {} |-> 0]

\* this.update(updates): each written value replaces the pool's value
ApplyUpdates(r, updates) ==
  [p \in DOMAIN r |-> IF p \in DOMAIN updates THEN [r[p] EXCEPT !.value = updates[p]] ELSE r[p]]

alterResources(r, changes) == ApplyUpdates(r, AlterUpdates(r, changes, EmptyUpdates))

\* Every actor whose pools all satisfy 0 <= value <= max
Pool(p, v) == [value |-> v, max |-> PoolMax(p)]
ValidResources ==
  {[health |-> Pool("health", h), wounds |-> Pool("wounds", w), morale |-> Pool("morale", m),
    madness |-> Pool("madness", d), action |-> Pool("action", a), focus |-> Pool("focus", f),
    heroism |-> Pool("heroism", o)] :
     h \in 0 .. PoolMax("health"), w \in 0 .. PoolMax("wounds"), m \in 0 .. PoolMax("morale"),
     d \in 0 .. PoolMax("madness"), a \in 0 .. PoolMax("action"), f \in 0 .. PoolMax("focus"),
     o \in 0 .. PoolMax("heroism")}

ResInit ==
  /\ resources \in ValidResources
  /\ lastCall = NoCall

ResIdle ==
  /\ resources = [p \in RESOURCES |-> [value |-> 0, max |-> PoolMax(p)]]
  /\ lastCall = NoCall

\* actor.alterResources(changes), through the update it commits
AlterResources(changes) ==
  /\ lastCall = NoCall
  /\ resources' = alterResources(resources, changes)
  /\ lastCall' = [op |-> "alterResources", changes |-> changes, prior |-> resources]
  /\ UNCHANGED NotRes

\* The call has returned: its observation is dropped before the next call
Returned ==
  /\ lastCall # NoCall
  /\ lastCall' = NoCall
  /\ UNCHANGED <<resources, NotRes>>

(***************************************************************************)
(* Turn lifecycle of the actor (onBeginTurn, onEndTurn, expireEffects)     *)
(***************************************************************************)
\* Bounds of the turn model
MaxRound == 3
MaxDur == 2

\* The effects the actor may carry, in the order of this.effects
EffectOrder == <<"e1", "e2">>
EffectIds == {EffectOrder[i] : i \in DOMAIN EffectOrder}

\* duration.rounds: a number of rounds, or not numeric for an effect without one
Durations == {[numeric |-> FALSE, n |-> 0]} \cup {[numeric |-> TRUE, n |-> d] : d \in 0 .. MaxDur}

\* flags.crucible.dot: absent, or the damage per turn by resource (possibly none)
NoDot == [flag |-> FALSE, damage |-> <<>>]
DotKinds ==
  {NoDot} \cup
  {[flag |-> TRUE, damage |-> d] :
     d \in {<<>>, <<[name |-> "health", amount |-> 1]>>, <<[name |-> "morale", amount |-> 1]>>}}

NoEffect == [origin |-> "none"]

Active(e) == e # NoEffect /\ e.removedStep = "none"

\* #isEffectExpired with the same bound at the start and at the end of the turn
isEffectExpiredSameBound(effect, start, combatRound) ==
  IF ~effect.rounds.numeric THEN FALSE
  ELSE (effect.startRound + effect.rounds.n) - combatRound <= 0

\* #isEffectExpired(effect, start), with game.combat.round
isEffectExpired(effect, start, combatRound) ==
  IF ~effect.rounds.numeric THEN FALSE
  ELSE LET isSelf == effect.origin = "self"
           remaining == (effect.startRound + effect.rounds.n) - combatRound
       IN IF isSelf THEN remaining <= 0
          ELSE IF start THEN remaining < 0
          ELSE remaining <= 0

\* expireEffects(start): the expired effects are deleted (and noted as removed here)
expireEffects(effs, start, combatRound) ==
  [id \in EffectIds |->
     IF Active(effs[id]) /\ isEffectExpired(effs[id], start, combatRound)
     THEN [effs[id] EXCEPT !.removedRound = combatRound,
                           !.removedStep = IF start THEN "begin" ELSE "end"]
     ELSE effs[id]]

\* The changes applyDamageOverTime hands to alterResources for one effect
DotChanges(dot) ==
  [i \in DOMAIN dot.damage |->
     [name |-> dot.damage[i].name,
      delta |-> -clamped(dot.damage[i].amount - resist, 0, 2 * dot.damage[i].amount)]]

\* applyDamageOverTime: every active effect with a dot flag alters the pools in
\* turn; a flag that names no resource ends the whole pass
RECURSIVE applyDamageOverTime(_, _, _)
applyDamageOverTime(r, effs, i) ==
  IF i > Len(EffectOrder) THEN r
  ELSE LET e == effs[EffectOrder[i]]
       IN IF ~(Active(e) /\ e.dot.flag) THEN applyDamageOverTime(r, effs, i + 1)
          ELSE IF DotChanges(e.dot) = <<>> THEN r
          ELSE applyDamageOverTime(alterResources(r, DotChanges(e.dot)), effs, i + 1)

\* actor.isIncapacitated
isIncapacitated(r) == r["health"].value = 0 /\ r["wounds"].value < r["wounds"].max

EffIdle ==
  /\ round = 0
  /\ phase = "before"
  /\ effects = [id \in EffectIds |-> NoEffect]
  /\ resist = 0
  /\ status = {}
  /\ reactions = <<>>

\* An effect of the given origin and duration is created on the actor in this round
CreateEffect(id, origin, rounds, dot) ==
  /\ effects[id] = NoEffect
  /\ effects' = [effects EXCEPT ![id] =
                   [origin |-> origin, startRound |-> round, rounds |-> rounds, dot |-> dot,
                    createdIn |-> phase, removedRound |-> 0, removedStep |-> "none"]]
  /\ UNCHANGED <<round, phase, resist, status, reactions, resources, NotEff>>

\* Recover resources, with the action points restored whatever the actor's state
recoverResourcesAlways(r) == [r EXCEPT !["action"].value = r["action"].max]

\* Recover resources: the action points are restored unless the actor is
\* incapacitated
recoverResources(r) ==
  IF ~isIncapacitated(r) THEN [r EXCEPT !["action"].value = r["action"].max] ELSE r

\* actor.onBeginTurn(): expire, damage over time, then the update that clears
\* system.status and recovers the action points
OnBeginTurn ==
  /\ phase = "before"
  /\ phase' = "turn"
  /\ status' = {}
  /\ effects' = expireEffects(effects, TRUE, round)
  /\ resources' = recoverResources(applyDamageOverTime(resources, effects', 1))
  /\ UNCHANGED <<round, resist, reactions, NotEff>>

\* actor.onEndTurn()
OnEndTurn ==
  /\ phase = "turn"
  /\ phase' = "after"
  /\ effects' = expireEffects(effects, FALSE, round)
  /\ UNCHANGED <<round, resist, status, reactions, resources, NotEff>>

\* The combat advances to the next round
NextRound ==
  /\ phase = "after"
  /\ round < MaxRound
  /\ round' = round + 1
  /\ phase' = "before"
  /\ UNCHANGED <<effects, resist, status, reactions, resources, NotEff>>

(***************************************************************************)
(* Defense testing (CrucibleActor.testDefense)                             *)
(***************************************************************************)
\* The largest attack roll total tried
MaxRollTotal == 25

\* The component totals tried for armor, dodge, parry, block and fortitude
ArmorTotals == {0, 14}
DodgeTotals == {0, 4}
ParryTotals == {0, 2}
BlockTotals == {0, 1, 3}
FortitudeTotals == {12}

\* system.defenses.physical is prepared by the actor data model; the sheet and
\* the roll data read it as an object with a total, testDefense as a number
PhysicalShapes == {"object", "number"}

\* twist.random(), a fraction num / den in [0, 1)
Fraction(num, den) == [nan |-> FALSE, num |-> num, den |-> den]
Draws ==
  {Fraction(0, 1), Fraction(3, 20), Fraction(1, 4), Fraction(7, 20), Fraction(2, 5),
   Fraction(1, 2), Fraction(19, 20)}

DefenseTypes == {"physical", "fortitude"}

\* A number of the language: NaN, or the fraction num / den
NaN == [nan |-> TRUE, num |-> 0, den |-> 1]
Num(n) == Fraction(n, 1)

\* The conversion of an operand to a number: an object converts to NaN
ToNumber(v) == IF v.kind = "number" THEN Num(v.total) ELSE NaN

\* a > b, a <= b and a * b on numbers; a comparison with NaN is false
Greater(a, b) == ~a.nan /\ ~b.nan /\ a.num * b.den > b.num * a.den
LessEq(a, b) == ~a.nan /\ ~b.nan /\ a.num * b.den <= b.num * a.den
Times(a, b) ==
  IF a.nan \/ b.nan THEN NaN
  ELSE [nan |-> FALSE, num |-> a.num * b.num, den |-> a.den * b.den]

Defenses(shape, armor, dodge, parry, block, fortitude) ==
  [physical |-> [kind |-> shape, total |-> armor + dodge + parry + block],
   armor |-> [total |-> armor], dodge |-> [total |-> dodge], parry |-> [total |-> parry],
   block |-> [total |-> block], fortitude |-> [total |-> fortitude]]

\* testDefense(defenseType, rollTotal), with the number twist.random() returns
testDefense(d, defenseType, rollTotal, random) ==
  IF defenseType = "physical"
  THEN LET dc == ToNumber(d.physical)
           r == Times(random, ToNumber(d.physical))
           dodge == d.dodge.total
           parry == dodge + d.parry.total
           block == dodge + d.block.total
       IN IF Greater(Num(rollTotal), dc) THEN "HIT"
          ELSE IF LessEq(r, Num(dodge)) THEN "DODGE"
          ELSE IF LessEq(r, Num(parry)) THEN "PARRY"
          ELSE IF LessEq(r, Num(block)) THEN "BLOCK"
          ELSE "DEFLECT"
  ELSE LET dc == d[defenseType].total
       IN IF rollTotal > dc THEN "EFFECTIVE" ELSE "RESIST"

NoTest == [op |-> "none"]

DefIdle ==
  /\ defenses = Defenses("object", 0, 0, 0, 0, 0)
  /\ lastTest = NoTest

\* target.testDefense(defenseType, roll.total)
TestDefense(defenseType, rollTotal, random) ==
  /\ lastTest = NoTest
  /\ lastTest' = [op |-> "testDefense", defenseType |-> defenseType, rollTotal |-> rollTotal,
                  random |-> random,
                  result |-> testDefense(defenses, defenseType, rollTotal, random)]
  /\ UNCHANGED <<defenses, NotDef>>

\* The result has been taken: the observation is dropped before the next test
TestTaken ==
  /\ lastTest # NoTest
  /\ lastTest' = NoTest
  /\ UNCHANGED <<defenses, NotDef>>

(***************************************************************************)
(* Character creation and advancement (applyAncestry, applyBackground,     *)
(* levelUp, purchaseAbility, purchaseSkill, addTalent)                     *)
(***************************************************************************)
\* Bounds of the advancement model: the shared pool of creation points, and
\* the skill and talent point totals
PoolSize == 3
SkillBudget == 12
TalentBudget == 1
\* Bound: how many talents more than its points an actor may be loaded with,
\* the build _prepareTalents warns about
MaxOverspent == 1
\* What an ability's value holds before the purchases
AbilityInitial == 9

\* The numbers of levelUp, canPurchaseAbility and canPurchaseSkill
LevelCap == 24
BaseCap == 3
ValueCap == 12
RankCap == 5
PathRank == 3

Abilities == {"strength", "wisdom"}
Items == {"none", "item"}
LevelDeltas == {-1, 0, 1, 2}
PurchaseDeltas == {-1, 1}
SkillDeltas == {-1, 0, 1}

\* SYSTEM.SKILL.RANKS: the cost of each rank and the points spent up to it
RankCost == <<0, 1, 1, 2, 4, 4>>
RankSpent == <<0, 1, 2, 4, 8, 12>>

\* The points the data model prepares from the stored fields of the actor
EffectiveLevel(a) == Max(a.level, 1)
AbilityValue(a, ability) ==
  clamped(AbilityInitial + a.base[ability] + a.increases[ability], 0, ValueCap)
Sum(f) == f["strength"] + f["wisdom"]
Points(a) ==
  LET abilityTotal == EffectiveLevel(a) - 1
      abilityAvailable == abilityTotal - Sum(a.increases)
      pool == PoolSize - Sum(a.base)
  IN [ability |-> [pool |-> pool, spent |-> Sum(a.increases), total |-> abilityTotal,
                   available |-> abilityAvailable,
                   requireInput |-> IF a.level = 0 THEN pool > 0 ELSE abilityAvailable # 0],
      skill |-> [spent |-> RankSpent[a.rank + 1], total |-> SkillBudget,
                 available |-> SkillBudget - RankSpent[a.rank + 1],
                 cost |-> IF a.rank < RankCap THEN RankCost[a.rank + 2] ELSE 0],
      talent |-> [spent |-> a.talents, total |-> TalentBudget,
                  available |-> TalentBudget - a.talents]]

isL0(a) == a.level = 0

NewActor ==
  [level |-> 0, ancestry |-> "none", background |-> "none",
   base |-> [ability \in Abilities |-> 0], increases |-> [ability \in Abilities |-> 0],
   rank |-> 0, path |-> FALSE, talents |-> 0, progress |-> "none"]

NoAdv == [op |-> "none"]

AdvIdle ==
  /\ actor = NewActor
  /\ lastAdv = NoAdv

\* The observation of an operation: what it was given, how it ended, what it found
Observed(op, arg, outcome) ==
  [op |-> op, arg |-> arg, outcome |-> outcome, prior |-> actor, priorResources |-> resources]

\* The guard of applyAncestry on a non-null item
AncestryAllowed(a) ==
  ~(~isL0(a) \/ Points(a).skill.spent > 0 \/ Points(a).ability.spent > 0)

\* The guard of applyBackground on a non-null item
BackgroundAllowed(a) ==
  ~(~isL0(a) \/ Points(a).skill.spent > 0)

\* applyAncestry(itemData); "none" is the null item
ApplyAncestry(item) ==
  /\ lastAdv = NoAdv
  /\ LET ok == IF item = "none" THEN isL0(actor) ELSE AncestryAllowed(actor)
     IN /\ actor' = IF ok THEN [actor EXCEPT !.ancestry = item] ELSE actor
        /\ lastAdv' = Observed("applyAncestry", item, IF ok THEN "updated" ELSE "threw")
  /\ UNCHANGED <<resources, NotAdv>>

\* applyBackground(itemData)
ApplyBackground(item) ==
  /\ lastAdv = NoAdv
  /\ LET ok == IF item = "none" THEN isL0(actor) ELSE BackgroundAllowed(actor)
     IN /\ actor' = IF ok THEN [actor EXCEPT !.background = item] ELSE actor
        /\ lastAdv' = Observed("applyBackground", item, IF ok THEN "updated" ELSE "threw")
  /\ UNCHANGED <<resources, NotAdv>>

\* The creation steps of levelUp without the talent points
CreationStepsNoTalent(a) ==
  /\ a.ancestry # "none"
  /\ a.background # "none"
  /\ ~Points(a).ability.requireInput
  /\ Points(a).skill.available = 0

\* The creation steps levelUp requires of a level 0 actor
CreationSteps(a) ==
  /\ a.ancestry # "none"
  /\ a.background # "none"
  /\ ~Points(a).ability.requireInput
  /\ Points(a).skill.available = 0
  /\ Points(a).talent.available = 0

\* _getRestData(): reserve pools to 0, the others to their maximum
RestData(r) ==
  [p \in RESOURCES |->
     [r[p] EXCEPT !.value = IF p \in {"wounds", "madness"} THEN 0 ELSE r[p].max]]

\* levelUp(delta)
LevelUp(delta) ==
  /\ lastAdv = NoAdv
  /\ IF delta = 0
     THEN /\ lastAdv' = Observed("levelUp", delta, "returned")
          /\ UNCHANGED <<actor, resources>>
     ELSE IF isL0(actor) /\ ~CreationSteps(actor)
     THEN /\ lastAdv' = Observed("levelUp", delta, "warned")
          /\ UNCHANGED <<actor, resources>>
     ELSE /\ actor' = [actor EXCEPT !.level = clamped(actor.level + delta, 0, LevelCap),
                                    !.progress = IF delta > 0 THEN "zero" ELSE "next"]
          /\ resources' = RestData(resources)
          /\ lastAdv' = Observed("levelUp", delta, "updated")
  /\ UNCHANGED NotAdv

\* canPurchaseAbility(ability, delta), delta being -1 or 1
canPurchaseAbility(a, ability, delta) ==
  IF isL0(a)
  THEN IF delta > 0 /\ (a.base[ability] = BaseCap \/ Points(a).ability.pool = 0) THEN FALSE
       ELSE IF delta < 0 /\ a.base[ability] = 0 THEN FALSE
       ELSE TRUE
  ELSE IF delta > 0 /\ (AbilityValue(a, ability) = ValueCap \/ Points(a).ability.available = 0)
       THEN FALSE
       ELSE IF delta < 0 /\ a.increases[ability] = 0 THEN FALSE
       ELSE TRUE

\* purchaseAbility(ability, delta)
PurchaseAbility(ability, delta) ==
  /\ lastAdv = NoAdv
  /\ IF ~canPurchaseAbility(actor, ability, delta)
     THEN /\ actor' = actor
          /\ lastAdv' = Observed("purchaseAbility", <<ability, delta>>, "warned")
     ELSE /\ actor' = IF isL0(actor)
                      THEN [actor EXCEPT !.base[ability] = Max(actor.base[ability] + delta, 0)]
                      ELSE [actor EXCEPT !.increases[ability] = actor.increases[ability] + delta]
          /\ lastAdv' = Observed("purchaseAbility", <<ability, delta>>, "updated")
  /\ UNCHANGED <<resources, NotAdv>>

\* canPurchaseSkill without the specialization path required at rank 3
canPurchaseSkillNoPath(a, delta) ==
  IF delta = 0 THEN FALSE
  ELSE IF a.ancestry = "none" \/ a.background = "none" THEN FALSE
  ELSE IF delta < 0 THEN a.rank # 0
  ELSE IF a.rank = RankCap THEN FALSE
  ELSE IF Points(a).skill.available < Points(a).skill.cost THEN FALSE
  ELSE TRUE

\* canPurchaseSkill(skillId, delta, strict), delta being Math.sign of the argument
canPurchaseSkill(a, delta) ==
  IF delta = 0 THEN FALSE
  ELSE IF a.ancestry = "none" \/ a.background = "none" THEN FALSE
  ELSE IF delta < 0 THEN a.rank # 0
  ELSE IF a.rank = RankCap THEN FALSE
  ELSE IF a.rank = PathRank /\ ~a.path THEN FALSE
  ELSE IF Points(a).skill.available < Points(a).skill.cost THEN FALSE
  ELSE TRUE

\* purchaseSkill(skillId, delta): in strict mode every refusal of canPurchaseSkill
\* throws, except the one of a zero delta, which returns false and is not looked at
PurchaseSkill(delta) ==
  /\ lastAdv = NoAdv
  /\ IF delta # 0 /\ ~canPurchaseSkill(actor, delta)
     THEN /\ actor' = actor
          /\ lastAdv' = Observed("purchaseSkill", delta, "warned")
     ELSE /\ actor' = [actor EXCEPT !.rank = actor.rank + delta,
                                    !.path = IF actor.rank + delta = PathRank THEN FALSE
                                             ELSE actor.path]
          /\ lastAdv' = Observed("purchaseSkill", delta, "updated")
  /\ UNCHANGED <<resources, NotAdv>>

\* The specialization path of the skill is chosen on its sheet
ChoosePath ==
  /\ lastAdv = NoAdv
  /\ actor.rank >= PathRank
  /\ ~actor.path
  /\ actor' = [actor EXCEPT !.path = TRUE]
  /\ lastAdv' = Observed("choosePath", "path", "updated")
  /\ UNCHANGED <<resources, NotAdv>>

\* addTalent(talent) of a talent not yet owned whose prerequisites are met; the
\* talents the model counts stop one past the bound
AddTalent ==
  /\ lastAdv = NoAdv
  /\ actor.talents <= TalentBudget + MaxOverspent
  /\ IF Points(actor).talent.available = 0
     THEN /\ actor' = actor
          /\ lastAdv' = Observed("addTalent", "talent", "warned")
     ELSE /\ actor' = [actor EXCEPT !.talents = actor.talents + 1]
          /\ lastAdv' = Observed("addTalent", "talent", "updated")
  /\ UNCHANGED <<resources, NotAdv>>

\* The operation has returned: its observation is dropped before the next one
AdvReturned ==
  /\ lastAdv # NoAdv
  /\ lastAdv' = NoAdv
  /\ UNCHANGED <<actor, resources, NotAdv>>

(***************************************************************************)
(* World item ids (standardizeItemIds, the preCreateItem hook)             *)
(***************************************************************************)
\* Bound: how many items the world holds
MaxItems == 2

\* The length of a standard id
IdLen == 16

\* Names and ids are sequences of characters
Sword == <<"S", "w", "o", "r", "d">>
SwordBang == <<"s", "w", "o", "r", "d", "!">>
Axe == <<"A", "x", "e">>
MorningSun == <<"S", "w", "o", "r", "d", " ", "o", "f", " ", "t", "h", "e", " ",
                "m", "o", "r", "n", "i", "n", "g", " ", "s", "u", "n">>
MorningStar == <<"S", "w", "o", "r", "d", " ", "o", "f", " ", "t", "h", "e", " ",
                 "m", "o", "r", "n", "i", "n", "g", " ", "s", "t", "a", "r">>
ItemNames == {Sword, SwordBang, Axe, MorningSun, MorningStar}

\* String.prototype.toLowerCase over the characters of the names
toLowerCase(c) ==
  CASE c = "A" -> "a"
    [] c = "S" -> "s"
    [] OTHER -> c

\* The characters a strict slug keeps
AlphaNumeric ==
  {"a", "d", "e", "f", "g", "h", "i", "m", "n", "o", "r", "s", "t", "u", "w", "x", "0"}

\* name.slugify({replacement: "", strict: true}): lower case, nothing but
\* letters and digits
slugify(name) ==
  SelectSeq([i \in 1 .. Len(name) |-> toLowerCase(name[i])], LAMBDA c : c \in AlphaNumeric)

\* s.slice(0, n)
slice(s, n) == SubSeq(s, 1, Min(n, Len(s)))

\* s.padEnd(n, c)
padEnd(s, n, c) == s \o [i \in 1 .. Max(n - Len(s), 0) |-> c]

\* item.name.slugify({replacement: "", strict: true}).slice(0, 16).padEnd(16, "0")
standardId(name) == padEnd(slice(slugify(name), IdLen), IdLen, "0")

\* Ids the host drew at random, or that an import kept
RandomIds == {padEnd(<<"R", "1">>, IdLen, "Z"), padEnd(<<"R", "2">>, IdLen, "Z")}

\* No _id in the creation data
NoId == <<>>

NoStd == [op |-> "none"]

IdsIdle ==
  /\ items = <<>>
  /\ lastStd = NoStd

\* Item.create of a world item: the preCreateItem hook gives an item created
\* without an id its standard id; the host keeps one document per id
CreateItem(name, id) ==
  /\ lastStd = NoStd
  /\ Cardinality(DOMAIN items) < MaxItems
  /\ LET _id == IF id = NoId THEN standardId(name) ELSE id
     IN /\ _id \notin DOMAIN items
        /\ items' = [i \in DOMAIN items \cup {_id} |-> IF i = _id THEN name ELSE items[i]]
  /\ UNCHANGED <<lastStd, NotIds>>

\* The creations that carry the id sid
CreationsFor(world, deletions, sid) ==
  {world[id] : id \in {d \in deletions : standardId(world[d]) = sid}}

\* standardizeItemIds(): the loop over game.items throws on an item whose
\* standard id some world item already has, before any deletion; otherwise every
\* item with another id is deleted and created again under its standard id.  Of
\* creations that carry the same id the host keeps at most one.
StandardizeItemIds ==
  /\ lastStd = NoStd
  /\ LET deletions == {id \in DOMAIN items : id # standardId(items[id])}
         inUse == \E id \in deletions : standardId(items[id]) \in DOMAIN items
         kept == DOMAIN items \ deletions
         creations == {standardId(items[id]) : id \in deletions}
         single == {sid \in creations : Cardinality(CreationsFor(items, deletions, sid)) = 1}
     IN IF inUse
        THEN /\ items' = items
             /\ lastStd' = [op |-> "standardizeItemIds", outcome |-> "threw", prior |-> items]
        ELSE \E created \in SUBSET creations :
               /\ single \subseteq created
               /\ \E name \in [created -> ItemNames] :
                    /\ \A sid \in created : name[sid] \in CreationsFor(items, deletions, sid)
                    /\ items' = [i \in kept \cup created |->
                                   IF i \in kept THEN items[i] ELSE name[i]]
               /\ lastStd' = [op |-> "standardizeItemIds", outcome |-> "created",
                              prior |-> items]
  /\ UNCHANGED NotIds

\* The utility has returned: its observation is dropped
StdReturned ==
  /\ lastStd # NoStd
  /\ lastStd' = NoStd
  /\ UNCHANGED <<items, NotIds>>

(***************************************************************************)
(* Actor preparation (prepareBaseData, prepareEmbeddedDocuments:           *)
(* _prepareTalents, _prepareEquipment, _prepareActions)                    *)
(***************************************************************************)
\* Bounds: the talent points of the actor and how many armor items it owns
TalentTotal == 2
MaxArmor == 2

\* The talents of the model: what each registers and the actions it grants
TalentData ==
  [pyromancer |-> [rune |-> "flame", gesture |-> "none", actions |-> {"fireball"}],
   archer |-> [rune |-> "none", gesture |-> "arrow", actions |-> {"volley", "strike"}],
   stalwart |-> [rune |-> "none", gesture |-> "none", actions |-> {}]]
TalentIds == DOMAIN TalentData
ArmorIds == {"leather", "plate"}

\* SYSTEM.ACTION.DEFAULT_ACTIONS, of which the model keeps three
DefaultActions == <<"cast", "move", "strike">>

\* SYSTEM.ARMOR.UNARMORED_DATA
Unarmored == "unarmored"
Undefined == "undefined"

\* The talent points the data model hands to a preparation pass
basePoints == [total |-> TalentTotal, spent |-> 0]

\* prepareBaseData()
prepareBaseData == [damage |-> {}]

\* _prepareTalents with a cost of two points for each talent
prepareTalentsTwoEach(points, talent) ==
  [talentIds |-> {talent[i] : i \in 1 .. Len(talent)},
   runes |-> {TalentData[talent[i]].rune : i \in 1 .. Len(talent)} \ {"none"},
   gestures |-> {TalentData[talent[i]].gesture : i \in 1 .. Len(talent)} \ {"none"},
   points |-> [total |-> points.total, spent |-> points.spent + 2 * Len(talent),
               available |-> points.total - (points.spent + 2 * Len(talent))],
   warned |-> points.total - (points.spent + 2 * Len(talent)) < 0]

\* _prepareTalents({talent}): the loop over the owned talents, then the points
\* that remain and the warning of an illegal build
prepareTalents(points, talent) ==
  LET loop[i \in 0 .. Len(talent)] ==
        IF i = 0
        THEN [talentIds |-> {}, runes |-> {}, gestures |-> {}, spent |-> points.spent]
        ELSE LET p == loop[i - 1]
                 t == TalentData[talent[i]]
                 withRune == IF t.rune # "none"
                             THEN [p EXCEPT !.runes = @ \cup {t.rune},
                                            !.gestures = IF @ = {} THEN {"touch"} ELSE @]
                             ELSE p
             IN [withRune EXCEPT !.talentIds = @ \cup {talent[i]},
                                 !.spent = p.spent + 1,
                                 !.gestures = IF t.gesture # "none"
                                              THEN @ \cup {t.gesture} ELSE @]
      done == loop[Len(talent)]
      available == points.total - done.spent
  IN [talentIds |-> done.talentIds, runes |-> done.runes, gestures |-> done.gestures,
      points |-> [total |-> points.total, spent |-> done.spent, available |-> available],
      warned |-> available < 0]

\* armors[0]: the first element of an array, undefined for an empty array and
\* for an item, which has no property 0
ElementZero(x) ==
  IF x.kind = "array" /\ Len(x.elements) > 0 THEN x.elements[1].id ELSE Undefined

\* _prepareArmor(armorItems): with more than one equipped armor it warns and
\* assigns armors = armors[0]; it returns armors[0] || this._getUnarmoredArmor()
prepareArmor(armorItems) ==
  LET filtered == SelectSeq(armorItems, LAMBDA i : i.equipped)
      warned == Len(filtered) > 1
      armors == IF warned THEN [kind |-> "item", id |-> filtered[1].id]
                ELSE [kind |-> "array", elements |-> filtered]
      first == ElementZero(armors)
  IN [warned |-> warned, armor |-> IF first = Undefined THEN Unarmored ELSE first]

\* _prepareActions(): the default actions the actor may use, then the actions
\* of every owned talent
prepareActions(prepared, talent) ==
  LET defaults == {DefaultActions[i] : i \in 1 .. Len(DefaultActions)}
      usable == {a \in defaults : a = "cast" => (prepared.gestures # {} /\ prepared.runes # {})}
  IN usable \cup UNION {TalentData[talent[i]].actions : i \in 1 .. Len(talent)}

\* One preparation pass over the owned items
prepareData(owned, pass) ==
  LET rollBonuses == prepareBaseData
      talents == prepareTalents(basePoints, owned.talent)
      armor == prepareArmor(owned.armor)
  IN [pass |-> pass,
      rollBonuses |-> rollBonuses,
      points |-> talents.points,
      talentIds |-> talents.talentIds,
      grimoire |-> [runes |-> talents.runes, gestures |-> talents.gestures],
      armor |-> armor.armor,
      actions |-> prepareActions(talents, owned.talent),
      warnings |-> (IF talents.warned THEN {"talents"} ELSE {})
                     \cup (IF armor.warned THEN {"armor"} ELSE {})]

NoItems == [talent |-> <<>>, armor |-> <<>>]

NoArmor == [op |-> "none"]

PrepIdle ==
  /\ itemTypes = NoItems
  /\ derived = prepareData(NoItems, "first")
  /\ lastArmor = NoArmor

\* The actor's items have changed: the host prepares the actor again
Changed(to) ==
  /\ itemTypes' = to
  /\ derived' = prepareData(to, "changed")
  /\ lastArmor' = NoArmor
  /\ UNCHANGED NotPrep

\* A talent item is created on the actor
CreateTalent(t) ==
  /\ \A i \in 1 .. Len(itemTypes.talent) : itemTypes.talent[i] # t
  /\ Changed([itemTypes EXCEPT !.talent = Append(@, t)])

\* A talent item is deleted
DeleteTalent(i) ==
  /\ i \in 1 .. Len(itemTypes.talent)
  /\ Changed([itemTypes EXCEPT
                !.talent = SubSeq(@, 1, i - 1) \o SubSeq(@, i + 1, Len(@))])

\* An armor item is created on the actor, with its equipped flag
CreateArmor(id, equipped) ==
  /\ Len(itemTypes.armor) < MaxArmor
  /\ \A i \in 1 .. Len(itemTypes.armor) : itemTypes.armor[i].id # id
  /\ Changed([itemTypes EXCEPT !.armor = Append(@, [id |-> id, equipped |-> equipped])])

\* The equipped flag of an armor item is updated
UpdateArmor(i, equipped) ==
  /\ i \in 1 .. Len(itemTypes.armor)
  /\ itemTypes.armor[i].equipped # equipped
  /\ Changed([itemTypes EXCEPT !.armor[i].equipped = equipped])

\* The actor is prepared again over the same items
PrepareAgain ==
  /\ derived' = prepareData(itemTypes, "repeated")
  /\ UNCHANGED <<itemTypes, lastArmor, NotPrep>>

\* this.items.get(itemId): the place of the armor item in the inventory
ItemPlace(owned, itemId) ==
  CHOOSE i \in 1 .. Len(owned.armor) : owned.armor[i].id = itemId

\* item.update({"system.equipped": equipped})
updateEquipped(owned, itemId, equipped) ==
  [owned EXCEPT !.armor[ItemPlace(owned, itemId)].equipped = equipped]

\* equipArmor({itemId, equipped}) up to the preparation that follows an update:
\* the items it leaves and how it ended
equipArmor(owned, current, itemId, equipped) ==
  IF current = itemId
  THEN IF equipped
       THEN [items |-> owned, outcome |-> "returned"]
       ELSE [items |-> updateEquipped(owned, itemId, FALSE), outcome |-> "updated"]
  ELSE IF current # Unarmored
  THEN [items |-> owned, outcome |-> "warned"]
  ELSE [items |-> updateEquipped(owned, itemId, TRUE), outcome |-> "updated"]

\* equipArmor({itemId, equipped}) of an owned armor item; an update prepares
\* the actor again
EquipArmor(itemId, equipped) ==
  /\ lastArmor = NoArmor
  /\ \E i \in 1 .. Len(itemTypes.armor) : itemTypes.armor[i].id = itemId
  /\ LET done == equipArmor(itemTypes, derived.armor, itemId, equipped)
     IN /\ itemTypes' = done.items
        /\ derived' = IF done.outcome = "updated"
                      THEN prepareData(done.items, "changed") ELSE derived
        /\ lastArmor' = [op |-> "equipArmor", itemId |-> itemId, equipped |-> equipped,
                         outcome |-> done.outcome, prior |-> itemTypes,
                         current |-> derived.armor]
  /\ UNCHANGED NotPrep

\* equipArmor has returned
ArmorReturned ==
  /\ lastArmor # NoArmor
  /\ lastArmor' = NoArmor
  /\ UNCHANGED <<itemTypes, derived, NotPrep>>

(***************************************************************************)
(* The configuration tables (Hooks.once("i18nInit"), Hooks.once("ready"))  *)
(***************************************************************************)
\* The tables the hooks localize, of which the model keeps three, and their
\* entries
toLocalize == <<"ABILITIES", "RESOURCES", "DEFENSES">>
ConfigKeys == {"first", "second"}

\* game.i18n.localize(stringId): the translation of a known string id, any
\* other string as it is
Translations ==
  [s \in {"CRUCIBLE.Label", "CRUCIBLE.Abbreviation"} |->
     IF s = "CRUCIBLE.Label" THEN "Label" ELSE "Abbr"]
localize(stringId) ==
  IF stringId \in DOMAIN Translations THEN Translations[stringId] ELSE stringId

\* The values an assignment may write to the label of an entry
Labels == {"CRUCIBLE.Label", "Label", "Other"}

\* The tables as the configuration modules declare them
SYSTEM ==
  [c \in {toLocalize[i] : i \in 1 .. Len(toLocalize)} |->
     [k \in ConfigKeys |-> [label |-> "CRUCIBLE.Label", abbreviation |-> "CRUCIBLE.Abbreviation"]]]

\* The loop body of the hooks over one table: labels and abbreviations
Localized(conf) ==
  [k \in DOMAIN conf |->
     [label |-> localize(conf[k].label), abbreviation |-> localize(conf[k].abbreviation)]]

\* Object.freeze(o): an object becomes frozen, a primitive is returned as it is
Freeze(set, o) == IF o.type = "object" THEN set \cup {o.ref} ELSE set

\* Object.freeze(c) in the loop of the ready hook, c being the name of the table
FreezeName(set, c) == Freeze(set, [type |-> "string", value |-> c])

NoSet == [op |-> "none"]

CfgIdle ==
  /\ config = SYSTEM
  /\ frozen = {}
  /\ hooks = {}
  /\ lastSet = NoSet

\* Hooks.once("i18nInit"): the tables are localized
I18nInit ==
  /\ "i18nInit" \notin hooks
  /\ hooks' = hooks \cup {"i18nInit"}
  /\ config' = [c \in DOMAIN config |-> Localized(config[c])]
  /\ UNCHANGED <<frozen, lastSet, NotCfg>>

\* The tables after the loop of the ready hook has reached the table i
RECURSIVE ReadyLoop(_, _, _)
ReadyLoop(conf, set, i) ==
  IF i > Len(toLocalize) THEN [config |-> conf, frozen |-> set]
  ELSE LET c == toLocalize[i]
       IN ReadyLoop([conf EXCEPT ![c] = Localized(conf[c])], FreezeName(set, c), i + 1)

\* Hooks.once("ready"): each table is localized, then Object.freeze(c)
Ready ==
  /\ "ready" \notin hooks
  /\ hooks' = hooks \cup {"ready"}
  /\ config' = ReadyLoop(config, frozen, 1).config
  /\ frozen' = ReadyLoop(config, frozen, 1).frozen
  /\ UNCHANGED <<lastSet, NotCfg>>

\* SYSTEM[c][k].label = label in a module: an assignment into a frozen table
\* throws, any other assignment is made
SetEntry(c, k, label) ==
  /\ lastSet = NoSet
  /\ IF c \in frozen
     THEN /\ config' = config
          /\ lastSet' = [op |-> "set", table |-> c, outcome |-> "threw", prior |-> config,
                         localized |-> hooks # {}]
     ELSE /\ config' = [config EXCEPT ![c][k].label = label]
          /\ lastSet' = [op |-> "set", table |-> c, outcome |-> "assigned", prior |-> config,
                         localized |-> hooks # {}]
  /\ UNCHANGED <<frozen, hooks, NotCfg>>

\* The assignment is over
SetDone ==
  /\ lastSet # NoSet
  /\ lastSet' = NoSet
  /\ UNCHANGED <<config, frozen, hooks, NotCfg>>

(***************************************************************************)
(* Weapon equipment (CrucibleActor.equipWeapon, _prepareWeapons)           *)
(***************************************************************************)
\* The weapon items the actor owns, in the order of the inventory: the hands
\* their category may go in, their base damage and their ambush property
WeaponItems == <<"dagger", "sword", "mace", "shield", "maul">>
WeaponData ==
  [dagger |-> [main |-> TRUE, off |-> TRUE, hands |-> 1, base |-> 2, ambush |-> TRUE],
   sword |-> [main |-> TRUE, off |-> TRUE, hands |-> 1, base |-> 3, ambush |-> FALSE],
   mace |-> [main |-> TRUE, off |-> FALSE, hands |-> 1, base |-> 4, ambush |-> FALSE],
   shield |-> [main |-> FALSE, off |-> TRUE, hands |-> 1, base |-> 1, ambush |-> FALSE],
   maul |-> [main |-> TRUE, off |-> FALSE, hands |-> 2, base |-> 5, ambush |-> FALSE],
   unarmed |-> [main |-> TRUE, off |-> TRUE, hands |-> 1, base |-> 1, ambush |-> FALSE]]
WeaponIds == {WeaponItems[i] : i \in 1 .. Len(WeaponItems)}

\* this._getUnarmedWeapon(): a weapon with no id
Unarmed == "unarmed"
NoWeapon == "none"
MissingId == "missing"

\* a.sort((a, b) => b.system.damage.base - a.system.damage.base): the place of
\* the element i is after the elements of a greater base and the earlier
\* elements of the same base
SortedPlace(s, i) ==
  1 + Cardinality({j \in 1 .. Len(s) :
                     \/ WeaponData[s[j]].base > WeaponData[s[i]].base
                     \/ WeaponData[s[j]].base = WeaponData[s[i]].base /\ j < i})
SortByBase(s) ==
  [k \in 1 .. Len(s) |-> s[CHOOSE i \in 1 .. Len(s) : SortedPlace(s, i) = k]]

\* The equipped weapon items, in the order of the inventory
EquippedWeapons(flags) == SelectSeq(WeaponItems, LAMBDA w : w \in flags)

\* The slots without a weapon get the unarmed weapon, the off hand only when
\* the main-hand weapon leaves it free
FillSlots(weapons) ==
  [mainhand |-> IF weapons.mainhand = NoWeapon THEN Unarmed ELSE weapons.mainhand,
   offhand |-> IF weapons.offhand # NoWeapon THEN weapons.offhand
               ELSE IF weapons.mainhand = NoWeapon \/ WeaponData[weapons.mainhand].hands < 2
               THEN Unarmed ELSE NoWeapon]

\* The three loops that assign the equipped weapons to the slots
AssignSlots(mh, oh, either) ==
  LET assign[i \in 0 .. Len(either)] ==
        IF i = 0
        THEN [mainhand |-> IF mh # <<>> THEN mh[1] ELSE NoWeapon,
              offhand |-> IF oh # <<>> THEN oh[1] ELSE NoWeapon]
        ELSE IF assign[i - 1].mainhand = NoWeapon
        THEN [assign[i - 1] EXCEPT !.mainhand = either[i]]
        ELSE IF assign[i - 1].offhand = NoWeapon
        THEN [assign[i - 1] EXCEPT !.offhand = either[i]]
        ELSE assign[i - 1]
  IN FillSlots(assign[Len(either)])

\* The two-handed weapons after their unshift: the last one of the inventory
\* is the first
Unshifted(s) == [i \in 1 .. Len(s) |-> s[Len(s) + 1 - i]]
TwoHanded(flags) ==
  Unshifted(SelectSeq(EquippedWeapons(flags), LAMBDA w : WeaponData[w].hands = 2))
OneHanded(flags) == SelectSeq(EquippedWeapons(flags), LAMBDA w : WeaponData[w].hands # 2)

\* _prepareWeapons(weaponItems): the main-hand and off-hand weapons of the
\* equipped items
prepareWeapons(flags) ==
  AssignSlots(
    TwoHanded(flags)
      \o SelectSeq(OneHanded(flags), LAMBDA w : WeaponData[w].main /\ ~WeaponData[w].off),
    TwoHanded(flags)
      \o SelectSeq(OneHanded(flags), LAMBDA w : WeaponData[w].off /\ ~WeaponData[w].main),
    SortByBase(SelectSeq(OneHanded(flags),
                         LAMBDA w : WeaponData[w].main /\ WeaponData[w].off)))

\* weapon.id of a slot: the unarmed weapon has none
HasId(w) == w \notin {Unarmed, NoWeapon}

\* The cost in action points of equipping w
EquipCost(w) == IF WeaponData[w].ambush THEN 0 ELSE 1

\* The item updates equipWeapon collects, with their equipped flag, and the
\* action cost
CollectUpdates(weapons, isMHFree, isOHFree, w1, w2, equipped) ==
  IF ~equipped
  THEN [equipped |-> FALSE, actionCost |-> 0,
        ids |-> (IF w1 = weapons.mainhand \/ w1 = weapons.offhand THEN {w1} ELSE {})
                  \cup (IF w2 # NoWeapon /\ w2 = weapons.offhand THEN {w2} ELSE {})]
  ELSE [equipped |-> TRUE,
        actionCost |-> (IF w2 # NoWeapon /\ isOHFree THEN EquipCost(w2) ELSE 0)
                         + (IF \/ WeaponData[w1].main /\ isMHFree
                               \/ WeaponData[w1].off /\ isOHFree /\ w2 = NoWeapon
                            THEN EquipCost(w1) ELSE 0),
        ids |-> (IF w2 # NoWeapon /\ isOHFree THEN {w2} ELSE {})
                  \cup (IF \/ WeaponData[w1].main /\ isMHFree
                           \/ WeaponData[w1].off /\ isOHFree /\ w2 = NoWeapon
                        THEN {w1} ELSE {})]

\* The free slots equipWeapon reads from the prepared weapons
FreeSlots(weapons, w1, w2, equipped) ==
  CollectUpdates(weapons, ~HasId(weapons.mainhand),
                 WeaponData[weapons.mainhand].hands = 1 /\ ~HasId(weapons.offhand),
                 w1, w2, equipped)

\* equipWeapon up to its persistence calls
equipWeaponUpdates(flags, w1, w2, equipped) ==
  FreeSlots(prepareWeapons(flags), w1, w2, equipped)

\* this.updateEmbeddedDocuments("Item", updates)
updateEmbeddedDocuments(flags, updates) ==
  IF updates.equipped THEN flags \cup updates.ids ELSE flags \ updates.ids

\* How a persistence call of the host may fail
Failures == {"none", "update", "updateEmbeddedDocuments"}

NoEquip == [op |-> "none"]

EquipIdle ==
  /\ weaponFlags = {}
  /\ combatant = FALSE
  /\ lastEquip = NoEquip

EquipObserved(args, outcome) ==
  [op |-> "equipWeapon", args |-> args, outcome |-> outcome,
   priorResources |-> resources, priorFlags |-> weaponFlags]

\* The end of equipWeapon: the warning of the action cost, then alterResources
\* and updateEmbeddedDocuments, one persistence call after the other
Persist(args, updates, charged, fail) ==
  IF charged /\ resources["action"].value < updates.actionCost
  THEN /\ lastEquip' = EquipObserved(args, "warned")
       /\ UNCHANGED <<resources, weaponFlags>>
  ELSE IF charged /\ fail = "update"
  THEN /\ lastEquip' = EquipObserved(args, "threw")
       /\ UNCHANGED <<resources, weaponFlags>>
  ELSE /\ resources' = IF charged
                       THEN alterResources(resources,
                              <<[name |-> "action", delta |-> -updates.actionCost]>>)
                       ELSE resources
       /\ IF fail = "updateEmbeddedDocuments"
          THEN /\ weaponFlags' = weaponFlags
               /\ lastEquip' = EquipObserved(args, "threw")
          ELSE /\ weaponFlags' = updateEmbeddedDocuments(weaponFlags, updates)
               /\ lastEquip' = EquipObserved(args, "done")

\* With the updates collected: whether the action cost is charged
Charge(args, updates, fail) ==
  Persist(args, updates, updates.equipped /\ combatant /\ updates.actionCost # 0, fail)

\* equipWeapon({itemId, mainhandId, offhandId, equipped}); fail names the
\* persistence call the host rejects, if any
EquipWeapon(w1, w2, equipped, fail) ==
  /\ lastEquip = NoEquip
  /\ lastCall = NoCall
  /\ IF w1 = MissingId
     THEN /\ lastEquip' = EquipObserved(<<w1, w2, equipped, fail>>, "threw")
          /\ UNCHANGED <<resources, weaponFlags>>
     ELSE Charge(<<w1, w2, equipped, fail>>,
                 equipWeaponUpdates(weaponFlags, w1, w2, equipped), fail)
  /\ UNCHANGED <<lastCall, combatant, NotEquip>>

\* equipWeapon has returned
EquipReturned ==
  /\ lastEquip # NoEquip
  /\ lastEquip' = NoEquip
  /\ UNCHANGED <<resources, lastCall, weaponFlags, combatant, NotEquip>>

\* The actor joins or leaves the combat: this.combatant
ToggleCombatant ==
  /\ lastEquip = NoEquip
  /\ combatant' = ~combatant
  /\ UNCHANGED <<resources, lastCall, weaponFlags, lastEquip, NotEquip>>

\* The actor regains an action point (alterResources({action: 1}))
RegainAction ==
  /\ lastEquip = NoEquip
  /\ resources' = alterResources(resources, <<[name |-> "action", delta |-> 1]>>)
  /\ UNCHANGED <<lastCall, weaponFlags, combatant, lastEquip, NotEquip>>

(***************************************************************************)
(* Combat turn changes (CrucibleCombat._onUpdate)                          *)
(***************************************************************************)
\* Bound: the rounds of the combat
MaxCombatRound == 2

\* The users of the world, the combatants in turn order and the players who
\* own each combatant's actor; a gamemaster owns every actor
Users == {"gamemaster", "player", "guest"}
Gamemasters == {"gamemaster"}
Combatants == <<"hero", "adversary">>
ActorOwners == [hero |-> {"player"}, adversary |-> {}]

\* actor.isOwner for the user of a client
isOwner(user, a) == user \in Gamemasters \/ user \in ActorOwners[a]

\* What an update of the combat may carry
UpdateKinds == {"nextTurn", "sameTurn", "other"}

NoUpdate == [kind |-> "none"]

CombatIdle ==
  /\ connected = {}
  /\ combat = [turn |-> 0, round |-> 0]
  /\ update = NoUpdate
  /\ pending = {}
  /\ begun = <<>>

\* A user connects to the world or leaves it
Connect(user) ==
  /\ update = NoUpdate
  /\ user \notin connected
  /\ connected' = connected \cup {user}
  /\ UNCHANGED <<combat, update, pending, begun, NotCombat>>

Disconnect(user) ==
  /\ update = NoUpdate
  /\ user \in connected
  /\ connected' = connected \ {user}
  /\ UNCHANGED <<combat, update, pending, begun, NotCombat>>

\* The data of an update of the given kind
UpdateData(kind) ==
  IF kind = "nextTurn"
  THEN IF combat.turn + 1 < Len(Combatants)
       THEN [kind |-> kind, hasTurn |-> TRUE, turn |-> combat.turn + 1,
             hasRound |-> FALSE, round |-> combat.round]
       ELSE [kind |-> kind, hasTurn |-> TRUE, turn |-> 0,
             hasRound |-> TRUE, round |-> combat.round + 1]
  ELSE [kind |-> kind, hasTurn |-> kind = "sameTurn", turn |-> combat.turn,
        hasRound |-> FALSE, round |-> combat.round]

\* A connected user updates the combat: the host applies the change and every
\* connected client is to run _onUpdate
UpdateCombat(kind) ==
  /\ update = NoUpdate
  /\ connected # {}
  /\ kind = "nextTurn" /\ combat.turn + 1 = Len(Combatants) => combat.round < MaxCombatRound
  /\ update' = [kind |-> kind, data |-> UpdateData(kind), previous |-> combat]
  /\ combat' = [turn |-> UpdateData(kind).turn, round |-> UpdateData(kind).round]
  /\ pending' = connected
  /\ begun' = <<>>
  /\ UNCHANGED <<connected, NotCombat>>

\* isNewTurn || isNewRound of _onUpdate(data, options, userId)
isNewTurnOrRound(u) ==
  \/ u.data.hasTurn /\ u.data.turn # u.previous.turn
  \/ u.data.hasRound /\ u.data.round # u.previous.round

\* _onUpdate on the client of one user: on a new turn or round the actor of the
\* combatant begins its turn if the user owns it
OnCombatUpdate(user) ==
  /\ user \in pending
  /\ pending' = pending \ {user}
  /\ begun' = IF isNewTurnOrRound(update) /\ isOwner(user, Combatants[combat.turn + 1])
              THEN Append(begun, user)
              ELSE begun
  /\ UNCHANGED <<connected, combat, update, NotCombat>>

\* Every client has handled the update
CombatUpdated ==
  /\ update # NoUpdate
  /\ pending = {}
  /\ update' = NoUpdate
  /\ begun' = <<>>
  /\ UNCHANGED <<connected, combat, pending, NotCombat>>

(***************************************************************************)
(* Weapon attacks (CrucibleWeapon.attack)                                  *)
(***************************************************************************)
\* criticalFailureThreshold of the roll data: 4 for a reliable weapon, 6 otherwise
ReliableThreshold == 4
CriticalThreshold == 6

\* roll.isCriticalFailure: the roll fails its difficulty by the threshold or more
isCriticalFailure(total, dc, threshold) == total <= dc - threshold

NoDamage == [populated |-> FALSE]

\* attack() after testDefense, with damage on a deflected critical failure only
attackDamageOnCriticalDeflect(r, criticalFailure, multiplier, resource) ==
  IF r = "DEFLECT" /\ ~criticalFailure THEN NoDamage
  ELSE IF r # "DEFLECT" /\ r # "HIT" THEN NoDamage
  ELSE [populated |-> TRUE, multiplier |-> multiplier, resource |-> resource]

\* attack() after testDefense: a deflected critical failure and every result
\* other than HIT and DEFLECT return the roll as it is; otherwise
\* roll.data.damage is filled in
attackDamage(r, criticalFailure, multiplier, resource) ==
  IF r = "DEFLECT" /\ criticalFailure THEN NoDamage
  ELSE IF r # "DEFLECT" /\ r # "HIT" THEN NoDamage
  ELSE [populated |-> TRUE, multiplier |-> multiplier, resource |-> resource]

\* The second argument of getTargetBoons as a caller passes it: a defense
\* type, or an object of options
DefenseTypeArgument(defenseType) == [kind |-> "string", value |-> defenseType]
OptionsArgument(defenseType, ranged) ==
  [kind |-> "object", attackType |-> "weapon", defenseType |-> defenseType, ranged |-> ranged]

\* argument === string
StrictEquals(argument, string) == argument.kind = "string" /\ argument.value = string

\* The targets of an attack: their statuses, whether they know testudo and
\* carry a shield, and whether the attacker strikes first against them (it has
\* the talent and the higher initiative)
AttackTarget(statuses, testudo, shield, strikeFirst) ==
  [statuses |-> statuses, testudo |-> testudo, shield |-> shield, strikeFirst |-> strikeFirst]
AttackTargets ==
  {AttackTarget(statuses, FALSE, FALSE, FALSE) : statuses \in SUBSET {"exposed", "guarded"}}
    \cup {AttackTarget({"guarded"}, TRUE, shield, FALSE) : shield \in BOOLEAN}
    \cup {AttackTarget({"exposed"}, FALSE, FALSE, TRUE)}

\* actor.getTargetBoons(target, defenseType)
getTargetBoons(target, defenseType) ==
  LET physical == StrictEquals(defenseType, "physical")
      exposed == IF physical /\ "exposed" \in target.statuses THEN 2 ELSE 0
      guarded == IF physical /\ "guarded" \in target.statuses
                 THEN (IF target.testudo /\ target.shield THEN 2 ELSE 1)
                 ELSE 0
      initiative == IF target.strikeFirst THEN 1 ELSE 0
  IN [boons |-> exposed + initiative, banes |-> guarded]

NoAttack == [op |-> "none"]

AtkIdle == lastAttack = NoAttack

\* attack(target, {defenseType}): the boons and banes against the target, the
\* roll of the given total against the target's defense total, the target's
\* testDefense, then the damage
Attack(target, defenseType, rollTotal, random, reliable) ==
  /\ lastAttack = NoAttack
  /\ LET targetBoons == getTargetBoons(target, OptionsArgument(defenseType, FALSE))
         dc == defenses[defenseType].total
         threshold == IF reliable THEN ReliableThreshold ELSE CriticalThreshold
         r == testDefense(defenses, defenseType, rollTotal, random)
         criticalFailure == isCriticalFailure(rollTotal, dc, threshold)
     IN lastAttack' = [op |-> "attack", target |-> target,
                       boons |-> 0 + targetBoons.boons, banes |-> 0 + targetBoons.banes,
                       defenseType |-> defenseType, total |-> rollTotal,
                       dc |-> dc, isCriticalFailure |-> criticalFailure, result |-> r,
                       damage |-> attackDamage(r, criticalFailure, 1, "health")]
  /\ UNCHANGED <<defVars, NotAtk>>

\* The roll has been returned
AttackReturned ==
  /\ lastAttack # NoAttack
  /\ lastAttack' = NoAttack
  /\ UNCHANGED <<defVars, NotAtk>>

(***************************************************************************)
(* Spell preparation (CrucibleSpell: _prepareData, _prepareForActor,       *)
(* #prepareGesture)                                                        *)
(***************************************************************************)
\* CrucibleSpell.COMPOSITION_STATES
COMPOSITION_STATES == [NONE |-> 0, COMPOSING |-> 1, COMPOSED |-> 2]

\* SYSTEM.SPELL.RUNES, of which the model keeps four: two that restore and two
\* that damage, over both resources
RUNES ==
  [courage |-> [resource |-> "morale", restoration |-> TRUE, damageType |-> "undefined",
                defense |-> "willpower"],
   flame |-> [resource |-> "health", restoration |-> FALSE, damageType |-> "fire",
              defense |-> "reflex"],
   life |-> [resource |-> "health", restoration |-> TRUE, damageType |-> "undefined",
             defense |-> "fortitude"],
   mind |-> [resource |-> "morale", restoration |-> FALSE, damageType |-> "psychic",
             defense |-> "willpower"]]

\* SYSTEM.SPELL.GESTURES, of which the model keeps those #prepareGesture
\* customizes and whose cost the table states, and touch, which it leaves alone
GESTURES ==
  [arrow |-> [cost |-> [action |-> 2, focus |-> 0], base |-> 10],
   aspect |-> [cost |-> [action |-> 2, focus |-> 1], base |-> 0],
   create |-> [cost |-> [action |-> 2, focus |-> 1], base |-> 0],
   touch |-> [cost |-> [action |-> 1, focus |-> 0], base |-> 4],
   ward |-> [cost |-> [action |-> 2, focus |-> 1], base |-> 6]]

\* SYSTEM.SPELL.INFLECTIONS, of which the model keeps extend; a spell may have
\* no inflection
INFLECTIONS == [extend |-> [cost |-> [action |-> 1, focus |-> 1]]]
NoInflection == "none"

\* The talents the preparation of a spell looks for
SpellTalents == {"bloodmagic000000", "arcanearcher0000", "runewarden000000"}

\* actor.abilities.wisdom.value
WisdomValues == {2, 3}

\* Math.ceil(n / 2)
CeilHalf(n) == (n + 1) \div 2

\* #prepareCost(spell)
prepareCost(gesture, inflection) ==
  LET cost == GESTURES[gesture].cost
  IN IF inflection # NoInflection
     THEN [cost EXCEPT !.action = @ + INFLECTIONS[inflection].cost.action,
                       !.focus = @ + INFLECTIONS[inflection].cost.focus]
     ELSE cost

\* #prepareDefense(spell)
prepareDefense(rune) ==
  IF RUNES[rune].restoration
  THEN [health |-> "wounds", wounds |-> "wounds", morale |-> "madness",
        madness |-> "madness"][RUNES[rune].resource]
  ELSE RUNES[rune].defense

\* #prepareDamage(spell)
prepareDamage(rune, gesture) ==
  [base |-> GESTURES[gesture].base,
   bonus |-> 0,
   multiplier |-> 1,
   type |-> RUNES[rune].damageType,
   restoration |-> RUNES[rune].restoration]

\* ["spell", rune.id, gesture.id, inflection?.id].filterJoin(".")
spellId(rune, gesture, inflection) ==
  <<"spell", rune, gesture>> \o (IF inflection # NoInflection THEN <<inflection>> ELSE <<>>)

\* _prepareData(): the composed data, then the derived attributes
prepareSpellData(rune, gesture, inflection, composition) ==
  [rune |-> rune,
   gesture |-> gesture,
   inflection |-> inflection,
   composition |-> composition,
   id |-> IF composition >= COMPOSITION_STATES.COMPOSING
          THEN spellId(rune, gesture, inflection) ELSE <<>>,
   cost |-> prepareCost(gesture, inflection),
   defense |-> prepareDefense(rune),
   damage |-> prepareDamage(rune, gesture),
   effects |-> <<>>,
   warnings |-> {},
   actorUpdates |-> {}]

\* if ( object.key ): the property is there and it is true
IfProperty(object, key) == key \in DOMAIN object /\ object[key] = TRUE

\* The decrement of cost.action by the Arcane Archer signature
ArcaneArcher(s, a) ==
  [s EXCEPT !.cost.action = @ - 1, !.actorUpdates = @ \cup {"system.status.arcaneArcher"}]

\* case "ward"
prepareWard(s, a) ==
  IF IfProperty(s.damage, "healing")
  THEN [s EXCEPT !.warnings = @ \cup {"ward"}]
  ELSE LET resistance == 6 + (IF "runewarden000000" \in a.talentIds
                              THEN CeilHalf(a.wisdom) ELSE 0)
       IN [s EXCEPT !.effects = Append(@, [id |-> "ward", rounds |-> 1,
                                            changes |-> <<[key |-> "resistances",
                                                           type |-> s.damage.type,
                                                           value |-> resistance]>>])]

\* case "aspect"
prepareAspect(s, a) ==
  IF IfProperty(s.damage, "healing")
  THEN [s EXCEPT !.warnings = @ \cup {"aspect"}]
  ELSE [s EXCEPT !.effects = Append(@, [id |-> "aspect", rounds |-> 6,
                                         changes |-> <<[key |-> "resistances",
                                                        type |-> s.damage.type,
                                                        value |-> 2],
                                                       [key |-> "rollBonuses",
                                                        type |-> s.damage.type,
                                                        value |-> 2]>>])]

\* #prepareGesture(): the switch over this.gesture.id
prepareGesture(s, a) ==
  CASE s.gesture = "arrow" ->
         IF "arcanearcher0000" \in a.talentIds /\ a.status.rangedAttack
            /\ ~a.status.arcaneArcher
         THEN ArcaneArcher(s, a) ELSE s
    [] s.gesture = "create" ->
         [s EXCEPT !.effects = Append(@, [id |-> "create", rounds |-> 10, changes |-> <<>>])]
    [] s.gesture = "ward" -> prepareWard(s, a)
    [] s.gesture = "aspect" -> prepareAspect(s, a)
    [] OTHER -> s

\* The Blood Magic block of _prepareForActor
bloodMagic(s, a) ==
  IF "bloodmagic000000" \in a.talentIds
  THEN [s EXCEPT !.cost = [action |-> s.cost.action, focus |-> 0,
                           health |-> s.cost.focus * 10]]
  ELSE s

\* Zero cost for un-composed spells: this.cost.action = this.cost.focus = 0
zeroCost(cost) == [cost EXCEPT !.action = 0, !.focus = 0]

\* _prepareForActor(): the gesture, blood magic, the copy of the cost kept as
\* _trueCost, then the cost of a spell that is not composed
prepareForActor(s, a) ==
  LET g == prepareGesture(s, a)
      b == bloodMagic(g, a)
  IN [rune |-> b.rune, gesture |-> b.gesture, inflection |-> b.inflection,
      composition |-> b.composition, id |-> b.id, defense |-> b.defense,
      damage |-> b.damage, effects |-> b.effects, warnings |-> b.warnings,
      actorUpdates |-> b.actorUpdates,
      actor |-> a,
      _trueCost |-> b.cost,
      cost |-> IF b.composition # COMPOSITION_STATES.COMPOSED THEN zeroCost(b.cost)
               ELSE b.cost]

\* The actors a spell is prepared for
SpellActors ==
  [talentIds : SUBSET SpellTalents,
   wisdom : WisdomValues,
   status : [rangedAttack : BOOLEAN, arcaneArcher : BOOLEAN]]

NoSpell == [gesture |-> "none"]

SpellIdle == spell = NoSpell

\* new CrucibleSpell({rune, gesture, inflection, composition}, {actor}): the
\* data of the new action is prepared, then prepared for the actor
PrepareSpell(rune, gesture, inflection, composition, a) ==
  /\ spell = NoSpell
  /\ spell' = prepareForActor(prepareSpellData(rune, gesture, inflection, composition), a)
  /\ UNCHANGED NotSpell

\* The spell is cast or its dialog closed: the transient action is gone
DiscardSpell ==
  /\ spell # NoSpell
  /\ spell' = NoSpell
  /\ UNCHANGED NotSpell

(***************************************************************************)
(* Spell casting (CrucibleActor.castSpell, CrucibleActor.dealDamage)       *)
(***************************************************************************)
\* CrucibleAction.computeDamage: floor((base + bonus) * multiplier) less the
\* resistance, never below 0
computeDamage(damage) ==
  Max((damage.base + damage.bonus) * damage.multiplier - damage.resistance, 0)

\* The totals a cast rolls, the target's defense total and its resistance
CastTotals == {8, 12}
CastDc == 10
CastResistances == {0, 5}

\* The caster of the spells: no talent changes the spell
Caster ==
  [talentIds |-> {}, wisdom |-> 2, status |-> [rangedAttack |-> FALSE, arcaneArcher |-> FALSE]]

\* object.key of an object that may lack the property: the value, or the
\* default the reader falls back to
Property(object, key, default) == IF key \in DOMAIN object THEN object[key] ELSE default

\* castSpell(action, target): the roll against the defense of the spell, the
\* target's testDefense, and on HIT or EFFECTIVE roll.data.damage with its total
castSpell(s, rollTotal, dc, resistance) ==
  LET defenseType == s.defense
      r == testDefense((defenseType :> [total |-> dc]), defenseType, rollTotal, Num(0))
      damage == [multiplier |-> s.damage.multiplier,
                 base |-> s.damage.base,
                 bonus |-> s.damage.bonus,
                 resistance |-> resistance,
                 resource |-> RUNES[s.rune].resource,
                 type |-> s.damage.type,
                 healing |-> IfProperty(s.damage, "healing")]
  IN IF r \in {"HIT", "EFFECTIVE"}
     THEN [result |-> r, damage |-> [total |-> computeDamage(damage)] @@ damage]
     ELSE [result |-> r]

\* dealDamage(target, rolls, {reverse}): the loop over the rolls that builds
\* the resources object handed to target.alterResources
dealDamage(rolls, reverse) ==
  LET direction == IF reverse THEN 1 ELSE -1
      loop[i \in 0 .. Len(rolls)] ==
        IF i = 0 THEN <<>>
        ELSE LET damage == Property(rolls[i], "damage", [none |-> TRUE])
                 resource == Property(damage, "resource", "health")
                 amount == Property(damage, "total", 0)
                             * (IF IfProperty(damage, "healing") THEN -1 ELSE 1) * direction
                 before == loop[i - 1]
             IN IF \E j \in 1 .. Len(before) : before[j].name = resource
                THEN [j \in 1 .. Len(before) |->
                        IF before[j].name = resource
                        THEN [before[j] EXCEPT !.delta = @ + amount] ELSE before[j]]
                ELSE Append(before, [name |-> resource, delta |-> amount])
  IN loop[Len(rolls)]

NoCast == [op |-> "none"]

CastIdle == lastCast = NoCast

\* The actor casts a composed spell of the rune and gesture at the target
CastSpell(rune, gesture, rollTotal, resistance) ==
  /\ lastCast = NoCast
  /\ LET s == prepareForActor(prepareSpellData(rune, gesture, NoInflection,
                                               COMPOSITION_STATES.COMPOSED), Caster)
     IN lastCast' = [op |-> "castSpell", rune |-> rune, gesture |-> gesture,
                     roll |-> castSpell(s, rollTotal, CastDc, resistance)]
  /\ UNCHANGED <<resources, NotCast>>

\* The damage of the cast is dealt to the target: dealDamage(target, [roll])
DealDamage(reverse) ==
  /\ lastCast # NoCast
  /\ lastCast.op = "castSpell"
  /\ LET changes == dealDamage(<<lastCast.roll>>, reverse)
     IN /\ resources' = alterResources(resources, changes)
        /\ lastCast' = [lastCast EXCEPT !.op = "dealDamage"] @@
                         [changes |-> changes, reverse |-> reverse, prior |-> resources]
  /\ UNCHANGED NotCast

\* The outcome has been returned
CastReturned ==
  /\ lastCast # NoCast
  /\ lastCast.op = "dealDamage"
  /\ lastCast' = NoCast
  /\ UNCHANGED <<resources, NotCast>>

(***************************************************************************)
(* The check dialog (StandardCheckDialog._onClickAction, #modifyBoons)     *)
(***************************************************************************)
\* SYSTEM.dice.MAX_BOONS
MAX_BOONS == 6

\* The named boons and banes a roll may carry besides the special ones
NamedBoons == {"flanked", "accurate"}

\* A boon of the roll data
DiceBoon(id, label, number) == [id |-> id, label |-> label, number |-> number]

\* The boons or banes objects a check may be created with: named entries whose
\* numbers stay within MAX_BOONS
BoonsObjects ==
  {b \in [NamedBoons -> 0 .. MAX_BOONS] : b["flanked"] + b["accurate"] <= MAX_BOONS}
InitialBoons(b) == [k \in {n \in NamedBoons : b[n] > 0} |-> DiceBoon(k, k, b[k])]

\* b.id === "special", of an entry that may have no id
IsSpecial(b) == "id" \in DOMAIN b /\ b.id = "special"

\* Object.values(boons).reduce((t, b) => t + (skipped(b) ? 0 : b.number), 0)
\* over the entries of the given keys, skipped(b) being b.id === "special" or
\* false
RECURSIVE ReduceBoons(_, _, _)
ReduceBoons(boons, keys, skipSpecial) ==
  IF keys = {} THEN 0
  ELSE LET k == CHOOSE x \in keys : TRUE
       IN (IF skipSpecial /\ IsSpecial(boons[k]) THEN 0 ELSE boons[k].number)
            + ReduceBoons(boons, keys \ {k}, skipSpecial)

\* boons.special ||= {label: "Special", number: 0}
OrSpecial(boons) ==
  IF "special" \in DOMAIN boons THEN boons
  ELSE ("special" :> [label |-> "Special", number |-> 0]) @@ boons

\* #modifyBoons with the special boons counted among the others
modifyBoonsCountSpecial(boons, delta) ==
  LET b == OrSpecial(boons)
      total == ReduceBoons(b, DOMAIN b, FALSE)
  IN [b EXCEPT !["special"].number = clamped(@ + delta, 0, MAX_BOONS - total)]

\* #modifyBoons(boons, delta)
modifyBoons(boons, delta) ==
  LET b == OrSpecial(boons)
      total == ReduceBoons(b, DOMAIN b, TRUE)
  IN [b EXCEPT !["special"].number = clamped(@ + delta, 0, MAX_BOONS - total)]

\* this.roll.initialize(data): the pool is prepared again from the boons and
\* banes given, each entry known by its key
initialize(data, part, boons) ==
  [data EXCEPT ![part] = [k \in DOMAIN boons |->
                            DiceBoon(k, boons[k].label, boons[k].number)]]

NoClick == [action |-> "none"]

DlgIdle ==
  /\ rollData = [boons |-> InitialBoons([n \in NamedBoons |-> 0]),
                 banes |-> InitialBoons([n \in NamedBoons |-> 0])]
  /\ lastClick = NoClick

\* The actions of the dialog that change the roll, with what each changes
ClickActions ==
  [action : {"boon-add"}, part : {"boons"}, delta : {1}] \cup
  [action : {"boon-subtract"}, part : {"boons"}, delta : {-1}] \cup
  [action : {"bane-add"}, part : {"banes"}, delta : {1}] \cup
  [action : {"bane-subtract"}, part : {"banes"}, delta : {-1}]

\* _onClickAction(event, target) for target.dataset.action
OnClickAction(c) ==
  /\ rollData' = initialize(rollData, c.part, modifyBoons(rollData[c.part], c.delta))
  /\ lastClick' = [action |-> c.action, part |-> c.part, prior |-> rollData]
  /\ UNCHANGED NotDlg

(***************************************************************************)
(* Reloading (TAGS.reload, the weapon attack tags)                         *)
(***************************************************************************)
\* The weapons of the reloading model: whether their category reloads and the
\* hands it takes
ReloadCategories ==
  [sword |-> [reload |-> FALSE, hands |-> 1],
   pistol |-> [reload |-> TRUE, hands |-> 1],
   handbow |-> [reload |-> TRUE, hands |-> 1],
   arbalest |-> [reload |-> TRUE, hands |-> 2],
   unarmed |-> [reload |-> FALSE, hands |-> 1]]

\* weapons.offhand of a two-handed main hand
Null == "null"

\* actor.equipment.weapons as _prepareWeapons leaves it: a main hand, and an
\* off hand unless the main hand takes both
Loadouts ==
  {[mainhand |-> m, offhand |-> o] :
     m \in DOMAIN ReloadCategories, o \in DOMAIN ReloadCategories \cup {Null}} 

ValidLoadout(l) ==
  /\ (l.offhand = Null) <=> (ReloadCategories[l.mainhand].hands = 2)
  /\ l.offhand # Null => ReloadCategories[l.offhand].hands = 1
  /\ l.mainhand = l.offhand => l.mainhand = "unarmed"

\* w.config.category.reload
CategoryReload(w) == ReloadCategories[w].reload

\* weapons.reload = mhCategory.reload || ohCategory.reload, ohCategory being
\* {} without an off hand
WeaponsReload(l) ==
  CategoryReload(l.mainhand) \/ (l.offhand # Null /\ CategoryReload(l.offhand))

\* TAGS.reload.canUse(): whether it returns without throwing
reloadCanUse(l, isLoaded) ==
  LET m == l.mainhand
      o == l.offhand
  IN ~(~WeaponsReload(l) \/ (m \in isLoaded /\ (o = Null \/ o \in isLoaded)))

\* TAGS.reload.prepare(): the item updates pushed to usage.actorUpdates
reloadPrepare(l, isLoaded) ==
  LET m == l.mainhand
      o == l.offhand
  IN IF CategoryReload(m) /\ m \notin isLoaded THEN {m}
     ELSE IF o # Null /\ CategoryReload(o) /\ o \notin isLoaded THEN {o}
     ELSE {}

NoReload == [op |-> "none"]

ReloadIdle ==
  /\ loadout = [mainhand |-> "unarmed", offhand |-> "unarmed"]
  /\ loaded = {}
  /\ lastReload = NoReload

\* The actor equips other weapons: the hands are prepared again
Arm(l) ==
  /\ lastReload = NoReload
  /\ ValidLoadout(l)
  /\ l # loadout
  /\ loadout' = l
  /\ UNCHANGED <<loaded, lastReload, NotReload>>

\* A weapon attack is rolled with the weapon in the hand: canUse throws for a
\* reloading weapon that is not loaded, roll() unloads a ranged reloading weapon
FireWeapon(hand) ==
  /\ lastReload = NoReload
  /\ loadout[hand] # Null
  /\ CategoryReload(loadout[hand])
  /\ loadout[hand] \in loaded
  /\ loaded' = loaded \ {loadout[hand]}
  /\ UNCHANGED <<loadout, lastReload, NotReload>>

\* The reload action is used: canUse, then prepare, then the item updates of
\* the action are committed
UseReload ==
  /\ lastReload = NoReload
  /\ IF reloadCanUse(loadout, loaded)
     THEN /\ loaded' = loaded \cup reloadPrepare(loadout, loaded)
          /\ lastReload' = [op |-> "reload", outcome |-> "used", prior |-> loaded]
     ELSE /\ loaded' = loaded
          /\ lastReload' = [op |-> "reload", outcome |-> "threw", prior |-> loaded]
  /\ UNCHANGED <<loadout, NotReload>>

\* The action has been confirmed or refused
ReloadReturned ==
  /\ lastReload # NoReload
  /\ lastReload' = NoReload
  /\ UNCHANGED <<loadout, loaded, NotReload>>

(***************************************************************************)
(* Reactions (TAGS.reaction)                                               *)
(***************************************************************************)
\* Bound: how many reactions the actor uses in one encounter
MaxReactions == 3

\* The talents of the actor that reacts
ReactorTalents == {"gladiator0000000"}

\* The tags a reaction may carry beside the reaction tag
ReactionTags == {{"mainhand"}, {"offhand"}, {"spell"}}

\* The focus a reaction costs unless it is free
ReactionFocus == 1

\* -Infinity
MinusInfinity == [infinite |-> TRUE, number |-> 0]
Finite(n) == [infinite |-> FALSE, number |-> n]

\* TAGS.reaction.canUse(): the actor is not the combatant whose turn it is
reactionCanUse(turnPhase) == turnPhase # "turn"

\* TAGS.reaction.prepare(): the focus cost and the status flags the action
\* will set
reactionPrepare(talentIds, flags, tags) ==
  LET canFreeReact == /\ "gladiator0000000" \in talentIds
                      /\ "gladiator" \notin flags
                      /\ ("mainhand" \in tags \/ "offhand" \in tags)
  IN IF canFreeReact
     THEN [focus |-> MinusInfinity, actorUpdates |-> {"gladiator"}]
     ELSE [focus |-> Finite(ReactionFocus), actorUpdates |-> {}]

\* The actor uses an action that bears the reaction tag: canUse, prepare, and
\* the status flags of usage.actorUpdates are committed
UseReaction(tags) ==
  /\ Len(reactions) < MaxReactions
  /\ reactionCanUse(phase)
  /\ LET prepared == reactionPrepare(ReactorTalents, status, tags)
     IN /\ status' = status \cup prepared.actorUpdates
        /\ reactions' = Append(reactions, [round |-> round, tags |-> tags,
                                           focus |-> prepared.focus])
  /\ UNCHANGED <<round, phase, effects, resist, resources, NotEff>>

\* The parts below the token layer at rest
LaterIdle ==
  /\ IdsIdle
  /\ PrepIdle
  /\ CfgIdle
  /\ EquipIdle
  /\ CombatIdle
  /\ AtkIdle
  /\ SpellIdle
  /\ CastIdle
  /\ DlgIdle
  /\ ReloadIdle
\* (end of the parts at rest)

(***************************************************************************)
(* Token engagement (CrucibleTokenObject)                                  *)
(***************************************************************************)
\* Bounds of the canvas model
GridSize == 3
NumClients == 2

Tokens == {"A", "B", "C"}
Cells == 0 .. GridSize - 1
Clients == 1 .. NumClients
\* game.user of a client: every client is logged in as its own user
UserOf(c) == c
Scenes == {"scene", "other"}

\* document.disposition of each token
Disposition(t) ==
  CASE t = "A" -> "FRIENDLY"
    [] t = "B" -> "HOSTILE"
    [] t = "C" -> "NEUTRAL"

\* #getDispositions().enemy
EnemyDispositions(d) ==
  CASE d = "SECRET" -> {}
    [] d = "HOSTILE" -> {"NEUTRAL", "FRIENDLY"}
    [] d = "NEUTRAL" -> {"HOSTILE"}
    [] d = "FRIENDLY" -> {"HOSTILE"}

Abs(x) == IF x < 0 THEN -x ELSE x

\* The hit rectangle of u (the middle of its square) meets the engagement
\* rectangle of t (its square grown by one square on every side), on open ground
InReach(P, t, u) == Abs(P[t] - P[u]) <= 1

\* #computeEngagement of token t, for positions P and the tokens S on the canvas
computeEngagement(P, S, t) ==
  IF t \in incap THEN {}
  ELSE {u \in S : /\ u # t
                  /\ Disposition(u) \in EnemyDispositions(Disposition(t))
                  /\ u \notin incap
                  /\ InReach(P, t, u)}

\* The tokens of the scene
Present == {t \in Tokens : placed[t] = "present"}

\* Every user may hold the game master role
GMUsers == Clients

\* commit decided by the role of the client's user alone
CommitAnyGM(c) == UserOf(c) \in GMUsers /\ canvasId[c] = "scene"

\* commit = (activeGM === game.user) && (activeGM?.viewedScene === canvas.id)
Commit(c) == activeGM = UserOf(c) /\ activeGM # 0 /\ canvasId[activeGM] = canvasId[c]

\* The clients whose canvas holds the scene's token objects
Viewers == {c \in Clients : canvasId[c] = "scene"}

\* token.engaged of every token after t.updateFlanking({enemies}), from the sets eng
updateFlanking(eng, t, enemies) ==
  LET removed == eng[t] \ enemies
      added == enemies \ eng[t]
  IN [u \in Tokens |->
        IF u = t THEN (eng[t] \ removed) \cup added
        ELSE IF u \in removed THEN eng[u] \ {t}
        ELSE IF u \in added THEN eng[u] \cup {t}
        ELSE eng[u]]

\* The actors t.updateFlanking({enemies, commit}) commits to
FlankingCommits(eng, t, enemies) == (eng[t] \ enemies) \cup (enemies \ eng[t]) \cup {t}

NoEngaged == [t \in Tokens |-> {}]

TokIdle ==
  /\ placed = [t \in Tokens |-> "absent"]
  /\ pos = [t \in Tokens |-> 0]
  /\ incap = {}
  /\ engaged = [c \in Clients |-> NoEngaged]
  /\ activeGM = 0
  /\ canvasId = [c \in Clients |-> "other"]
  /\ commitCalls = {}

\* _draw: the token alone recomputes its engaged set
Draw(c, t) ==
  /\ c \in Viewers
  /\ t \in Present
  /\ engaged' = [engaged EXCEPT ![c][t] = computeEngagement(pos, Present, t)]
  /\ commitCalls' = {}
  /\ UNCHANGED <<placed, pos, incap, activeGM, canvasId, NotTok>>

\* A token is created: on every viewing client its object is constructed and
\* drawn, then _onCreate mirrors the drawn set
OnCreate(t, cell) ==
  /\ placed[t] = "absent"
  /\ placed' = [placed EXCEPT ![t] = "present"]
  /\ pos' = [pos EXCEPT ![t] = cell]
  /\ LET S == Present \cup {t}
         enemies == computeEngagement(pos', S, t)
     IN /\ engaged' = [c \in Clients |->
                         IF c \in Viewers
                         THEN updateFlanking([engaged[c] EXCEPT ![t] = {}], t, enemies)
                         ELSE engaged[c]]
        /\ commitCalls' = {<<c, u>> : c \in {v \in Viewers : Commit(v)},
                                      u \in FlankingCommits(NoEngaged, t, enemies)}
  /\ UNCHANGED <<incap, activeGM, canvasId, NotTok>>

\* A token is moved: _onUpdate on every viewing client
OnUpdate(t, cell) ==
  /\ placed[t] = "present"
  /\ pos' = [pos EXCEPT ![t] = cell]
  /\ LET enemies == computeEngagement(pos', Present, t)
     IN /\ engaged' = [c \in Clients |->
                         IF c \in Viewers THEN updateFlanking(engaged[c], t, enemies)
                         ELSE engaged[c]]
        /\ commitCalls' = UNION {{<<c, u>> : u \in FlankingCommits(engaged[c], t, enemies)} :
                                   c \in {v \in Viewers : Commit(v)}}
  /\ UNCHANGED <<placed, incap, activeGM, canvasId, NotTok>>

\* A token is deleted: _onDelete on every viewing client
OnDelete(t) ==
  /\ placed[t] = "present"
  /\ placed' = [placed EXCEPT ![t] = "deleted"]
  /\ pos' = [pos EXCEPT ![t] = 0]
  /\ engaged' = [c \in Clients |->
                   IF c \in Viewers
                   THEN [u \in Tokens |->
                           IF u = t THEN {}
                           ELSE IF u \in engaged[c][t] THEN engaged[c][u] \ {t}
                           ELSE engaged[c][u]]
                   ELSE engaged[c]]
  /\ commitCalls' = UNION {{<<c, u>> : u \in engaged[c][t]} : c \in {v \in Viewers : Commit(v)}}
  /\ UNCHANGED <<incap, activeGM, canvasId, NotTok>>

\* A client views another scene: the token objects of its canvas are built anew
ViewScene(c, s) ==
  /\ canvasId[c] # s
  /\ canvasId' = [canvasId EXCEPT ![c] = s]
  /\ engaged' = [engaged EXCEPT ![c] = NoEngaged]
  /\ commitCalls' = {}
  /\ UNCHANGED <<placed, pos, incap, activeGM, NotTok>>

\* The host elects another active game master, or none
ActiveGMChange(u) ==
  /\ u \in {0} \cup GMUsers
  /\ u # activeGM
  /\ activeGM' = u
  /\ commitCalls' = {}
  /\ UNCHANGED <<placed, pos, incap, engaged, canvasId, NotTok>>

\* One client's canvas: the scene's tokens are loaded with empty engaged sets
InitTok ==
  /\ ResIdle
  /\ EffIdle
  /\ DefIdle
  /\ AdvIdle
  /\ LaterIdle
  /\ placed \in [Tokens -> {"absent", "present"}]
  /\ pos \in [Tokens -> Cells]
  /\ \A t \in Tokens : placed[t] = "absent" => pos[t] = 0
  /\ incap \in SUBSET Tokens
  /\ engaged = [c \in Clients |-> NoEngaged]
  /\ activeGM = 1
  /\ canvasId = [c \in Clients |-> IF c = 1 THEN "scene" ELSE "other"]
  /\ commitCalls = {}

NextTok ==
  \/ \E t \in Tokens : Draw(1, t)
  \/ \E t \in Tokens, cell \in Cells : OnCreate(t, cell)
  \/ \E t \in Tokens, cell \in Cells : OnUpdate(t, cell)
  \/ \E t \in Tokens : OnDelete(t)

SpecTok == InitTok /\ [][NextTok]_vars

\* C3: in every state reached by token _draw, _onCreate, _onUpdate and _onDelete
\* events the engagement relation is symmetric: B is in A.engaged iff A is in B.engaged.
C3_EngagementSymmetric ==
  \A c \in Clients : \A a \in Tokens, b \in Tokens :
    (b \in engaged[c][a]) <=> (a \in engaged[c][b])

\* Several clients, any of them the active game master, around two tokens
GMTokens == {"A", "B"}

InitGM ==
  /\ ResIdle
  /\ EffIdle
  /\ DefIdle
  /\ AdvIdle
  /\ LaterIdle
  /\ placed = [t \in Tokens |-> "absent"]
  /\ pos = [t \in Tokens |-> 0]
  /\ incap = {}
  /\ engaged = [c \in Clients |-> NoEngaged]
  /\ activeGM \in {0} \cup GMUsers
  /\ canvasId \in [Clients -> Scenes]
  /\ commitCalls = {}

NextGM ==
  \/ \E c \in Clients, t \in GMTokens : Draw(c, t)
  \/ \E t \in GMTokens, cell \in Cells : OnCreate(t, cell)
  \/ \E t \in GMTokens, cell \in Cells : OnUpdate(t, cell)
  \/ \E t \in GMTokens : OnDelete(t)
  \/ \E c \in Clients, s \in Scenes : ViewScene(c, s)
  \/ \E u \in {0} \cup GMUsers : ActiveGMChange(u)

SpecGM == InitGM /\ [][NextGM]_vars

\* The clients that called actor.updateFlanking during the last event
Committers == {cc[1] : cc \in commitCalls}

\* C4: of the clients a token creation, update or deletion is delivered to, at
\* most one commits (calls actor.updateFlanking), and it is the client of the
\* active game master viewing the scene; the others only update their engaged sets.
C4_SingleCommitter ==
  /\ Cardinality(Committers) <= 1
  /\ \A c \in Committers : activeGM = UserOf(c) /\ canvasId[c] = "scene"

\* C4 witness: an event reached two viewing clients, one committed, and another
\* one only updated its engaged sets
C4_Witness ==
  /\ Cardinality(Viewers) >= 2
  /\ Committers # {}
  /\ \E c \in Viewers \ Committers : engaged[c] # NoEngaged

\* The parts of the first specifications at rest
EarlierIdle ==
  /\ ResIdle
  /\ TokIdle
  /\ EffIdle
  /\ DefIdle
  /\ AdvIdle

\* Every part but this one at rest
IdleButIds ==
  /\ EarlierIdle
  /\ PrepIdle
  /\ CfgIdle
  /\ EquipIdle
  /\ CombatIdle
  /\ AtkIdle
  /\ SpellIdle
  /\ CastIdle
  /\ DlgIdle
  /\ ReloadIdle

\* Every part but this one at rest
IdleButPrep ==
  /\ EarlierIdle
  /\ IdsIdle
  /\ CfgIdle
  /\ EquipIdle
  /\ CombatIdle
  /\ AtkIdle
  /\ SpellIdle
  /\ CastIdle
  /\ DlgIdle
  /\ ReloadIdle

\* Every part but this one at rest
IdleButCfg ==
  /\ EarlierIdle
  /\ IdsIdle
  /\ PrepIdle
  /\ EquipIdle
  /\ CombatIdle
  /\ AtkIdle
  /\ SpellIdle
  /\ CastIdle
  /\ DlgIdle
  /\ ReloadIdle

\* Every part but this one at rest
IdleButEquip ==
  /\ EarlierIdle
  /\ IdsIdle
  /\ PrepIdle
  /\ CfgIdle
  /\ CombatIdle
  /\ AtkIdle
  /\ SpellIdle
  /\ CastIdle
  /\ DlgIdle
  /\ ReloadIdle

\* Every part but this one at rest
IdleButCombat ==
  /\ EarlierIdle
  /\ IdsIdle
  /\ PrepIdle
  /\ CfgIdle
  /\ EquipIdle
  /\ AtkIdle
  /\ SpellIdle
  /\ CastIdle
  /\ DlgIdle
  /\ ReloadIdle

\* Every part but this one at rest
IdleButAtk ==
  /\ EarlierIdle
  /\ IdsIdle
  /\ PrepIdle
  /\ CfgIdle
  /\ EquipIdle
  /\ CombatIdle
  /\ SpellIdle
  /\ CastIdle
  /\ DlgIdle
  /\ ReloadIdle

\* Every part but this one at rest
IdleButSpell ==
  /\ EarlierIdle
  /\ IdsIdle
  /\ PrepIdle
  /\ CfgIdle
  /\ EquipIdle
  /\ CombatIdle
  /\ AtkIdle
  /\ CastIdle
  /\ DlgIdle
  /\ ReloadIdle

\* Every part but this one at rest
IdleButCast ==
  /\ EarlierIdle
  /\ IdsIdle
  /\ PrepIdle
  /\ CfgIdle
  /\ EquipIdle
  /\ CombatIdle
  /\ AtkIdle
  /\ SpellIdle
  /\ DlgIdle
  /\ ReloadIdle

\* Every part but this one at rest
IdleButDlg ==
  /\ EarlierIdle
  /\ IdsIdle
  /\ PrepIdle
  /\ CfgIdle
  /\ EquipIdle
  /\ CombatIdle
  /\ AtkIdle
  /\ SpellIdle
  /\ CastIdle
  /\ ReloadIdle

\* Every part but this one at rest
IdleButReload ==
  /\ EarlierIdle
  /\ IdsIdle
  /\ PrepIdle
  /\ CfgIdle
  /\ EquipIdle
  /\ CombatIdle
  /\ AtkIdle
  /\ SpellIdle
  /\ CastIdle
  /\ DlgIdle

\* (end of the other parts at rest)

(***************************************************************************)
(* The turn lifecycle as a specification                                   *)
(***************************************************************************)
InitEff ==
  /\ resources \in {r \in ValidResources :
                      /\ r["health"].value = r["health"].max /\ r["wounds"].value = 0
                      /\ r["morale"].value = r["morale"].max /\ r["madness"].value = 0
                      /\ r["focus"].value = 0 /\ r["heroism"].value = 0}
  /\ lastCall = NoCall
  /\ TokIdle
  /\ round = 1
  /\ phase = "before"
  /\ effects = [id \in EffectIds |-> NoEffect]
  /\ resist \in {0, 1}
  /\ status = {}
  /\ reactions = <<>>
  /\ DefIdle
  /\ AdvIdle
  /\ LaterIdle

NextEff ==
  \/ \E id \in EffectIds, origin \in {"self", "other"}, rounds \in Durations, dot \in DotKinds :
       CreateEffect(id, origin, rounds, dot)
  \/ OnBeginTurn
  \/ OnEndTurn
  \/ NextRound

SpecEff == InitEff /\ [][NextEff]_vars

\* Where the claim puts the removal of a numeric effect: the start of the
\* target's turn in round N+d for its own effects, the end of that turn for others
ExpiresOnTime(e) ==
  LET due == e.startRound + e.rounds.n
      step == IF e.origin = "self" THEN "begin" ELSE "end"
  IN IF e.removedStep # "none"
     THEN e.removedRound = due /\ e.removedStep = step
     ELSE \/ round < due
          \/ round = due /\ phase = "before"
          \/ round = due /\ phase = "turn" /\ step = "end"

\* C5 as stated, for every numeric duration d: an effect created in round N is
\* removed by the target's onBeginTurn of round N+d if the target originated it,
\* and by its onEndTurn of round N+d otherwise, and not at any other step.
C5_ExpiryEveryDuration ==
  \A id \in EffectIds :
    (effects[id] # NoEffect /\ effects[id].rounds.numeric) => ExpiresOnTime(effects[id])

\* C5 amended, for a duration of d >= 1 rounds: removed by onBeginTurn of round
\* N+d if self-originated, by onEndTurn of round N+d otherwise, and at no other step.
C5_ExpiryPositiveDuration ==
  \A id \in EffectIds :
    (effects[id] # NoEffect /\ effects[id].rounds.numeric /\ effects[id].rounds.n >= 1)
      => ExpiresOnTime(effects[id])

\* C5 witness: two effects of the same positive duration created in the same
\* round, the actor's own removed at the start of its turn, the other at the end
C5_Witness ==
  \E a \in EffectIds, b \in EffectIds :
    /\ effects[a] # NoEffect /\ effects[b] # NoEffect
    /\ effects[a].origin = "self" /\ effects[b].origin = "other"
    /\ effects[a].rounds = [numeric |-> TRUE, n |-> 1] /\ effects[b].rounds = effects[a].rounds
    /\ effects[a].startRound = effects[b].startRound
    /\ effects[a].removedStep = "begin" /\ effects[b].removedStep = "end"
    /\ effects[a].removedRound = effects[a].startRound + 1
    /\ effects[b].removedRound = effects[a].removedRound

InitDef ==
  /\ ResIdle
  /\ TokIdle
  /\ EffIdle
  /\ AdvIdle
  /\ LaterIdle
  /\ defenses \in {Defenses(shape, armor, dodge, parry, block, fortitude) :
                     shape \in PhysicalShapes, armor \in ArmorTotals, dodge \in DodgeTotals,
                     parry \in ParryTotals, block \in BlockTotals,
                     fortitude \in FortitudeTotals}
  /\ lastTest = NoTest

NextDef ==
  \/ \E defenseType \in DefenseTypes, rollTotal \in 0 .. MaxRollTotal, random \in Draws :
       TestDefense(defenseType, rollTotal, random)
  \/ TestTaken

SpecDef == InitDef /\ [][NextDef]_vars

PhysicalTested == lastTest # NoTest /\ lastTest.defenseType = "physical"

\* C6: a physical test returns HIT exactly when rollTotal is greater than the
\* target's physical defense total, whatever number was drawn.
C6_HitIffAboveTotal ==
  PhysicalTested =>
    (lastTest.result = "HIT" <=> lastTest.rollTotal > defenses.physical.total)

\* The bands of the claim over r = random * total: DODGE up to dodge.total, PARRY
\* for the next parry.total, BLOCK for the next block.total, DEFLECT for the rest
BandOf(d, random) ==
  LET r == Times(random, Num(d.physical.total))
      dodge == d.dodge.total
      parry == dodge + d.parry.total
      block == parry + d.block.total
  IN IF LessEq(r, Num(dodge)) THEN "DODGE"
     ELSE IF LessEq(r, Num(parry)) THEN "PARRY"
     ELSE IF LessEq(r, Num(block)) THEN "BLOCK"
     ELSE "DEFLECT"

\* C7: a physical test whose rollTotal does not beat the physical total resolves
\* r into the band of the component it falls in, each band as wide as the
\* component's total: DODGE, then PARRY, then BLOCK, and DEFLECT for the rest.
C7_BandsWeightedByTotals ==
  (PhysicalTested /\ lastTest.rollTotal <= defenses.physical.total) =>
    lastTest.result = BandOf(defenses, lastTest.random)

(***************************************************************************)
(* Character creation and advancement as a specification                   *)
(***************************************************************************)
InitAdv ==
  /\ ResIdle
  /\ TokIdle
  /\ EffIdle
  /\ DefIdle
  /\ AdvIdle
  /\ LaterIdle

NextAdv ==
  \/ \E item \in Items : ApplyAncestry(item)
  \/ \E item \in Items : ApplyBackground(item)
  \/ \E delta \in LevelDeltas : LevelUp(delta)
  \/ \E ability \in Abilities, delta \in PurchaseDeltas : PurchaseAbility(ability, delta)
  \/ \E delta \in SkillDeltas : PurchaseSkill(delta)
  \/ ChoosePath
  \/ AddTalent
  \/ AdvReturned

SpecAdv == InitAdv /\ [][NextAdv]_vars

Applied == lastAdv # NoAdv /\ lastAdv.op \in {"applyAncestry", "applyBackground"}
                           /\ lastAdv.arg # "none"

\* C8: applyAncestry and applyBackground with a non-null item change the details
\* only at level 0 with no skill point and no ability point spent; in every
\* other state they throw and leave the actor unchanged.
C8_AppliedOnlyUnspent ==
  Applied =>
    IF /\ lastAdv.prior.level = 0
       /\ Points(lastAdv.prior).skill.spent = 0
       /\ Points(lastAdv.prior).ability.spent = 0
    THEN lastAdv.outcome = "updated"
    ELSE lastAdv.outcome = "threw" /\ actor = lastAdv.prior

\* Creation is complete in the claim's sense: ancestry and background are
\* selected and no ability, skill or talent point remains unspent
CreationComplete(a) ==
  /\ a.ancestry # "none"
  /\ a.background # "none"
  /\ Points(a).ability.pool <= 0
  /\ Points(a).skill.available <= 0
  /\ Points(a).talent.available <= 0

LevelledUp == lastAdv # NoAdv /\ lastAdv.op = "levelUp"

\* C9: the level stays within [0, 24]; levelUp takes the level from 0 to a
\* positive value only when creation was complete, and a levelUp at level 0
\* without that completeness changes nothing.
C9_LevelGated ==
  /\ actor.level \in 0 .. LevelCap
  /\ LevelledUp /\ lastAdv.prior.level = 0 =>
       /\ actor.level > 0 => CreationComplete(lastAdv.prior)
       /\ ~CreationComplete(lastAdv.prior) =>
            actor = lastAdv.prior /\ resources = lastAdv.priorResources

\* C9 witness: a levelUp has taken a complete level 0 actor to a positive level
C9_Witness ==
  /\ LevelledUp
  /\ lastAdv.prior.level = 0
  /\ CreationComplete(lastAdv.prior)
  /\ actor.level > 0

SkillPurchased == lastAdv # NoAdv /\ lastAdv.op = "purchaseSkill"

\* What the claim requires of a committed rank increase
IncreaseCovered(a) ==
  /\ a.ancestry # "none"
  /\ a.background # "none"
  /\ a.rank < RankCap
  /\ (a.rank = PathRank => a.path)
  /\ Points(a).skill.available >= Points(a).skill.cost

Purchased == lastAdv # NoAdv /\ lastAdv.op = "purchaseAbility"

\* C10: at level 0 an increase is refused when the base is 3 or the pool is
\* exhausted and a decrease when the base is 0, so every base stays within
\* [0, 3]; after level 0 an increase is refused once the value is 12 or no
\* ability points are available.
C10_PurchaseRefused ==
  /\ \A ability \in Abilities : actor.base[ability] \in 0 .. BaseCap
  /\ Purchased =>
       LET a == lastAdv.prior
           ability == lastAdv.arg[1]
           delta == lastAdv.arg[2]
           refused == lastAdv.outcome = "warned" /\ actor = a
       IN IF a.level = 0
          THEN /\ (delta > 0 /\ (a.base[ability] = BaseCap \/ Points(a).ability.pool <= 0))
                    => refused
               /\ (delta < 0 /\ a.base[ability] = 0) => refused
          ELSE (delta > 0 /\ (AbilityValue(a, ability) = ValueCap
                              \/ Points(a).ability.available <= 0)) => refused

(***************************************************************************)
(* Talent purchases of an actor loaded with any number of talents          *)
(***************************************************************************)
\* The actor as loaded: its owned talent items are whatever the world holds
InitOverspent ==
  /\ ResIdle
  /\ TokIdle
  /\ EffIdle
  /\ DefIdle
  /\ actor \in {[NewActor EXCEPT !.talents = owned] :
                  owned \in 0 .. TalentBudget + MaxOverspent}
  /\ lastAdv = NoAdv
  /\ LaterIdle

\* The creation of the character and its talent purchases
NextOverspent ==
  \/ \E item \in Items : ApplyAncestry(item)
  \/ \E item \in Items : ApplyBackground(item)
  \/ \E delta \in SkillDeltas : PurchaseSkill(delta)
  \/ AddTalent
  \/ AdvReturned

SpecOverspent == InitOverspent /\ [][NextOverspent]_vars

TalentAsked == lastAdv # NoAdv /\ lastAdv.op = "addTalent"

\* C28: addTalent creates the talent on the actor only when
\* points.talent.available is at least 1; when it is 0 or negative the call
\* warns and the actor's owned talents are what they were.
C28_TalentNeedsPoint ==
  TalentAsked =>
    IF Points(lastAdv.prior).talent.available >= 1
    THEN lastAdv.outcome = "updated" /\ actor.talents = lastAdv.prior.talents + 1
    ELSE lastAdv.outcome = "warned" /\ actor = lastAdv.prior

(***************************************************************************)
(* World item ids as a specification                                       *)
(***************************************************************************)
InitIds ==
  /\ IdleButIds
  /\ IdsIdle

NextIds ==
  \/ \E name \in ItemNames, id \in RandomIds \cup {NoId} : CreateItem(name, id)
  \/ StandardizeItemIds
  \/ StdReturned

SpecIds == InitIds /\ [][NextIds]_vars

Standardized == lastStd # NoStd

\* Two world items whose names give the same standard id
Colliding(world) ==
  \E a \in DOMAIN world, b \in DOMAIN world :
    a # b /\ standardId(world[a]) = standardId(world[b])

\* C12: when two world items would get the same standard id, standardizeItemIds
\* throws its conflict error before it deletes or creates anything: the world
\* items are what they were.
C12_ConflictLeavesItems ==
  (Standardized /\ Colliding(lastStd.prior)) =>
    (lastStd.outcome = "threw" /\ items = lastStd.prior)

(***************************************************************************)
(* Actor preparation as a specification                                    *)
(***************************************************************************)
InitPrep ==
  /\ IdleButPrep
  /\ PrepIdle

NextPrep ==
  \/ \E t \in TalentIds : CreateTalent(t)
  \/ \E i \in 1 .. Cardinality(TalentIds) : DeleteTalent(i)
  \/ \E id \in ArmorIds, equipped \in BOOLEAN : CreateArmor(id, equipped)
  \/ \E i \in 1 .. MaxArmor, equipped \in BOOLEAN : UpdateArmor(i, equipped)
  \/ PrepareAgain

SpecPrep == InitPrep /\ [][NextPrep]_vars

\* The talents the actor owns
OwnedTalents == {itemTypes.talent[i] : i \in 1 .. Len(itemTypes.talent)}

EquippedArmor == SelectSeq(itemTypes.armor, LAMBDA i : i.equipped)

\* C14: with more than one armor item flagged equipped the preparation warns and
\* the actor's armor is the first equipped item; the unarmored armor stands in
\* only when no armor item is equipped.
C14_FirstEquippedArmorWins ==
  /\ Len(EquippedArmor) > 1 =>
       ("armor" \in derived.warnings /\ derived.armor = EquippedArmor[1].id)
  /\ derived.armor = Unarmored <=> Len(EquippedArmor) = 0

(***************************************************************************)
(* Armor equipment as a specification                                      *)
(***************************************************************************)
NextArmor ==
  \/ \E id \in ArmorIds, equipped \in BOOLEAN : CreateArmor(id, equipped)
  \/ \E id \in ArmorIds, equipped \in BOOLEAN : EquipArmor(id, equipped)
  \/ ArmorReturned
  \/ \E t \in TalentIds : CreateTalent(t)
  \/ PrepareAgain

SpecArmor == InitPrep /\ [][NextArmor]_vars

Unequipping == lastArmor # NoArmor /\ ~lastArmor.equipped

\* C30: equipArmor called with equipped = false never sets the equipped flag
\* of an armor item: it unequips the equipped armor or leaves every item as it
\* was.
C30_UnequipNeverEquips ==
  Unequipping =>
    /\ Len(itemTypes.armor) = Len(lastArmor.prior.armor)
    /\ \A i \in 1 .. Len(itemTypes.armor) :
         itemTypes.armor[i].equipped => lastArmor.prior.armor[i].equipped
    /\ \/ itemTypes = lastArmor.prior
       \/ /\ lastArmor.current # Unarmored
          /\ itemTypes = updateEquipped(lastArmor.prior, lastArmor.current, FALSE)

(***************************************************************************)
(* The configuration tables as a specification                             *)
(***************************************************************************)
InitCfg ==
  /\ IdleButCfg
  /\ CfgIdle

NextCfg ==
  \/ I18nInit
  \/ Ready
  \/ \E c \in DOMAIN SYSTEM, k \in ConfigKeys, label \in Labels : SetEntry(c, k, label)
  \/ SetDone

SpecCfg == InitCfg /\ [][NextCfg]_vars

\* C15: once a startup hook has localized the tables, every localized table is
\* frozen, and an assignment to an entry made after that throws and leaves the
\* tables as they were.
C15_TablesFrozen ==
  /\ hooks # {} => \A c \in DOMAIN SYSTEM : c \in frozen
  /\ (lastSet # NoSet /\ lastSet.localized) =>
       (lastSet.outcome = "threw" /\ config = lastSet.prior)

(***************************************************************************)
(* Weapon equipment as a specification                                     *)
(***************************************************************************)
InitEquip ==
  /\ IdleButEquip
  /\ EquipIdle

NextEquip ==
  \/ \E w1 \in WeaponIds \cup {MissingId}, w2 \in WeaponIds \cup {NoWeapon},
        equipped \in BOOLEAN, fail \in Failures :
       EquipWeapon(w1, w2, equipped, fail)
  \/ EquipReturned
  \/ ToggleCombatant
  \/ RegainAction

SpecEquip == InitEquip /\ [][NextEquip]_vars

\* C16: equipWeapon persists the action points it charges and the equipped
\* flags in one final call: when the operation fails, the action points and
\* every equipped flag are what they were.
C16_EquipAllOrNothing ==
  (lastEquip # NoEquip /\ lastEquip.outcome = "threw") =>
    (resources = lastEquip.priorResources /\ weaponFlags = lastEquip.priorFlags)

WeaponsEquipped == weaponFlags # {}

\* Whether the weapons flagged equipped fit the two hands
HandsFit(flags) ==
  /\ Cardinality(flags) <= 2
  /\ (\E w \in flags : WeaponData[w].hands = 2) => Cardinality(flags) = 1
  /\ Cardinality(flags) = 2 =>
        \E mainhand \in flags, offhand \in flags :
          mainhand # offhand /\ WeaponData[mainhand].main /\ WeaponData[offhand].off

\* C29: after any sequence of equipWeapon calls from an actor with no weapon
\* equipped, the weapons flagged equipped fit the two hands: at most one in
\* the main hand and one in the off hand, the off-hand one of a category that
\* may go there, and a two-handed weapon with no other weapon.
C29_EquippedFitHands == WeaponsEquipped => HandsFit(weaponFlags)

(***************************************************************************)
(* Combat turn changes as a specification                                  *)
(***************************************************************************)
InitCombat ==
  /\ IdleButCombat
  /\ CombatIdle

NextCombat ==
  \/ \E user \in Users : Connect(user)
  \/ \E user \in Users : Disconnect(user)
  \/ \E kind \in UpdateKinds : UpdateCombat(kind)
  \/ \E user \in Users : OnCombatUpdate(user)
  \/ CombatUpdated

SpecCombat == InitCombat /\ [][NextCombat]_vars

\* An update that changed the turn or the round has been handled by every client
TurnChangeHandled ==
  /\ update # NoUpdate
  /\ pending = {}
  /\ isNewTurnOrRound(update)

\* C17: once every client has handled a combat update that changed the turn or
\* the round, the turn of the new combatant's actor has been begun exactly
\* once, by a user who owns the actor.
C17_TurnBegunOnce ==
  /\ TurnChangeHandled => Len(begun) = 1
  /\ \A i \in 1 .. Len(begun) : isOwner(begun[i], Combatants[combat.turn + 1])

(***************************************************************************)
(* Weapon attacks as a specification                                       *)
(***************************************************************************)
NextAtk ==
  \/ \E target \in AttackTargets, defenseType \in DefenseTypes,
        rollTotal \in 0 .. MaxRollTotal, random \in Draws, reliable \in BOOLEAN :
       Attack(target, defenseType, rollTotal, random, reliable)
  \/ AttackReturned

SpecAtk == InitDef /\ [][NextAtk]_vars

Attacked == lastAttack # NoAttack

\* C18 as stated: the roll carries damage exactly when the result is HIT, or
\* DEFLECT on a critical failure.
C18_DamageOnCriticalDeflect ==
  Attacked =>
    (lastAttack.damage.populated <=>
       \/ lastAttack.result = "HIT"
       \/ lastAttack.result = "DEFLECT" /\ lastAttack.isCriticalFailure)

\* C18, amended: the roll carries damage exactly when the result is HIT, or
\* DEFLECT on a roll that is not a critical failure; DODGE, PARRY, BLOCK and a
\* deflected critical failure carry none.
C18_DamageUnlessAvoided ==
  Attacked =>
    (lastAttack.damage.populated <=>
       \/ lastAttack.result = "HIT"
       \/ lastAttack.result = "DEFLECT" /\ ~lastAttack.isCriticalFailure)

\* C18 witness: a deflected attack that is no critical failure carries damage
C18_Witness ==
  /\ Attacked
  /\ lastAttack.result = "DEFLECT"
  /\ ~lastAttack.isCriticalFailure
  /\ lastAttack.damage.populated

\* C25: a weapon attack against the physical defense adds the target boons to
\* its dice pool: 2 boons against an exposed target, and against a guarded
\* target 1 bane, or 2 banes if the target knows testudo and has a shield.
C25_TargetBoonsAdded ==
  (Attacked /\ lastAttack.defenseType = "physical") =>
    /\ "exposed" \in lastAttack.target.statuses => lastAttack.boons >= 2
    /\ "guarded" \in lastAttack.target.statuses =>
         lastAttack.banes = (IF lastAttack.target.testudo /\ lastAttack.target.shield
                             THEN 2 ELSE 1)

(***************************************************************************)
(* Spell preparation as a specification                                    *)
(***************************************************************************)
InitSpell ==
  /\ IdleButSpell
  /\ SpellIdle

NextSpell ==
  \/ \E rune \in DOMAIN RUNES, gesture \in DOMAIN GESTURES,
        inflection \in DOMAIN INFLECTIONS \cup {NoInflection},
        composition \in 0 .. 2, a \in SpellActors :
       PrepareSpell(rune, gesture, inflection, composition, a)
  \/ DiscardSpell

SpecSpell == InitSpell /\ [][NextSpell]_vars

Prepared == spell # NoSpell

\* C19: a spell prepared for an actor while its composition is not COMPOSED
\* shows 0 in every component of its cost (action, focus and health), whatever
\* the rune, gesture, inflection and talents, and _trueCost keeps the full cost:
\* the cost of the same spell once composed.
C19_UncomposedCostsNothing ==
  (Prepared /\ spell.composition # COMPOSITION_STATES.COMPOSED) =>
    /\ \A k \in DOMAIN spell.cost : spell.cost[k] = 0
    /\ spell._trueCost =
         prepareForActor(prepareSpellData(spell.rune, spell.gesture, spell.inflection,
                                          COMPOSITION_STATES.COMPOSED), spell.actor).cost

\* C20: a spell prepared with the ward or the aspect gesture and a restorative
\* rune (life, courage) has a warning and no active effect; a ward or aspect
\* effect is attached only when the rune is not restorative.
C20_NoWardOfRestoration ==
  (Prepared /\ spell.gesture \in {"ward", "aspect"}) =>
    /\ RUNES[spell.rune].restoration => (spell.warnings # {} /\ spell.effects = <<>>)
    /\ spell.effects # <<>> => ~RUNES[spell.rune].restoration

(***************************************************************************)
(* Spell casting as a specification                                        *)
(***************************************************************************)
InitCast ==
  /\ resources \in ValidResources
  /\ lastCall = NoCall
  /\ TokIdle
  /\ EffIdle
  /\ DefIdle
  /\ AdvIdle
  /\ LaterIdle

NextCast ==
  \/ \E rune \in DOMAIN RUNES, gesture \in DOMAIN GESTURES, rollTotal \in CastTotals,
        resistance \in CastResistances :
       CastSpell(rune, gesture, rollTotal, resistance)
  \/ \E reverse \in BOOLEAN : DealDamage(reverse)
  \/ CastReturned

SpecCast == InitCast /\ [][NextCast]_vars

DamageDealt == lastCast # NoCast /\ lastCast.op = "dealDamage"

\* C21: when a spell of a restorative rune (life, courage) succeeds against its
\* target, the damage dealt from its roll is applied with inverted sign: the
\* delta handed to alterResources for the rune's resource is not negative, and
\* the target's pool is not lower than it was.
C21_RestorationNeverLowers ==
  (/\ DamageDealt
   /\ ~lastCast.reverse
   /\ RUNES[lastCast.rune].restoration
   /\ lastCast.roll.result \in {"HIT", "EFFECTIVE"}) =>
    \A i \in 1 .. Len(lastCast.changes) :
      /\ lastCast.changes[i].delta >= 0
      /\ resources[lastCast.changes[i].name].value
           >= lastCast.prior[lastCast.changes[i].name].value

(***************************************************************************)
(* The check dialog as a specification                                     *)
(***************************************************************************)
InitDlg ==
  /\ IdleButDlg
  /\ lastClick = NoClick
  /\ \E b \in BoonsObjects, n \in BoonsObjects :
       rollData = [boons |-> InitialBoons(b), banes |-> InitialBoons(n)]

NextDlg == \E c \in ClickActions : OnClickAction(c)

SpecDlg == InitDlg /\ [][NextDlg]_vars

\* The number of special boons of a boons object, and the sum of the others
SpecialNumber(boons) == IF "special" \in DOMAIN boons THEN boons["special"].number ELSE 0
OtherBoons(boons) ==
  ReduceBoons(boons, DOMAIN boons \ {"special"}, FALSE)

InitReload ==
  /\ IdleButReload
  /\ ReloadIdle

NextReload ==
  \/ \E l \in Loadouts : Arm(l)
  \/ \E hand \in {"mainhand", "offhand"} : FireWeapon(hand)
  \/ UseReload
  \/ ReloadReturned

SpecReload == InitReload /\ [][NextReload]_vars

\* The equipped weapons of a reloading category that were not loaded
UnloadedReloading(l, isLoaded) ==
  {w \in {l.mainhand, l.offhand} \ {Null} : CategoryReload(w) /\ w \notin isLoaded}

\* C23: the reload tag permits the action if and only if an equipped weapon of
\* a reloading category (main hand or off hand) is not loaded, and its use marks
\* such a weapon loaded; with no such weapon canUse refuses.
C23_ReloadNeedsUnloaded ==
  lastReload # NoReload =>
    /\ (lastReload.outcome = "used") <=> (UnloadedReloading(loadout, lastReload.prior) # {})
    /\ lastReload.outcome = "used" =>
         \E w \in UnloadedReloading(loadout, lastReload.prior) : w \in loaded

(***************************************************************************)
(* Reactions over an encounter as a specification                          *)
(***************************************************************************)
InitReact == InitEff

NextReact ==
  \/ \E tags \in ReactionTags : UseReaction(tags)
  \/ OnBeginTurn
  \/ OnEndTurn
  \/ NextRound

SpecReact == InitReact /\ [][NextReact]_vars

\* The reactions of the encounter that were prepared with the free focus cost
FreeReactions == {i \in 1 .. Len(reactions) : reactions[i].focus = MinusInfinity}

\* C24: an actor with the gladiator talent prepares at most one main hand or
\* off hand reaction with the free focus cost over a whole encounter, whatever
\* the turns and rounds: once a free reaction has set the gladiator flag, no
\* later reaction of the encounter is free.
C24_OneFreeReaction == Cardinality(FreeReactions) <= 1

(***************************************************************************)
(* The resource pools as a specification                                   *)
(***************************************************************************)
InitRes == ResInit /\ TokIdle /\ EffIdle /\ DefIdle /\ AdvIdle /\ LaterIdle
NextRes ==
  \/ \E changes \in ChangeMaps : AlterResources(changes)
  \/ Returned
SpecRes == InitRes /\ [][NextRes]_vars

\* The keys of a changes object
ChangeKeys(changes) == {changes[i].name : i \in DOMAIN changes}

\* The delta a changes object carries for a key it holds
ChangeDelta(changes, key) == changes[CHOOSE i \in DOMAIN changes : changes[i].name = key].delta

\* C1: starting from pools with 0 <= value <= max, every value alterResources
\* writes lies in [0, max] of its pool, and so does every pool after every call.
C1_PoolsClamped ==
  /\ \A p \in RESOURCES : 0 <= resources[p].value /\ resources[p].value <= resources[p].max
  /\ lastCall # NoCall =>
       LET updates == AlterUpdates(lastCall.prior, lastCall.changes, EmptyUpdates)
       IN \A k \in DOMAIN updates : 0 <= updates[k] /\ updates[k] <= lastCall.prior[k].max

\* C1 witness: a call has run whose deltas leave [0, max] on both sides before clamping
C1_Witness ==
  /\ lastCall # NoCall
  /\ \E i \in DOMAIN lastCall.changes :
       LET c == lastCall.changes[i] IN lastCall.prior[c.name].value + c.delta < 0
  /\ \E i \in DOMAIN lastCall.changes :
       LET c == lastCall.changes[i]
       IN lastCall.prior[c.name].value + c.delta > lastCall.prior[c.name].max

\* The overflow rule as the claim states it for one active pool and its reserve:
\* a loss that exceeds the pool by e > 0 empties it and adds 2*e to the reserve.
OverflowDoubled(active, reserve) ==
  (/\ lastCall # NoCall
   /\ active \in ChangeKeys(lastCall.changes)
   /\ reserve \notin ChangeKeys(lastCall.changes)
   /\ lastCall.prior[active].value + ChangeDelta(lastCall.changes, active) < 0)
  => LET e == -(lastCall.prior[active].value + ChangeDelta(lastCall.changes, active))
     IN /\ resources[active].value = 0
        /\ resources[reserve].value =
             Min(lastCall.prior[reserve].value + 2 * e, lastCall.prior[reserve].max)

\* C2: a negative health delta exceeding health by e > 0 leaves health at 0 and
\* raises wounds by 2*e (clamped to wounds.max); likewise morale onto madness.
C2_OverflowDoubled ==
  /\ OverflowDoubled("health", "wounds")
  /\ OverflowDoubled("morale", "madness")

\* A call whose changes carry a loss that overflows the first pool and a delta
\* of the pool the overflow goes onto
OverflowAndDelta(call, from, onto) ==
  /\ call # NoCall
  /\ Len(call.changes) = 2
  /\ {call.changes[1].name, call.changes[2].name} = {from, onto}
  /\ \E i \in 1 .. 2 :
       call.changes[i].name = from /\ call.prior[from].value + call.changes[i].delta < 0

\* C27: when one alterResources call carries a health delta that overflows and
\* a wounds delta (or morale and madness), the resulting wounds show both the
\* overflow and the explicit delta, and the result is the same for either
\* order of the keys.
C27_OverflowAndDeltaBothApplied ==
  \A pair \in {<<"health", "wounds">>, <<"morale", "madness">>} :
    OverflowAndDelta(lastCall, pair[1], pair[2]) =>
      LET changes == lastCall.changes
          prior == lastCall.prior
          loss == CHOOSE c \in {changes[1], changes[2]} : c.name = pair[1]
          delta == CHOOSE c \in {changes[1], changes[2]} : c.name = pair[2]
          overflow == prior[pair[1]].value + loss.delta
      IN /\ resources = alterResources(prior, <<changes[2], changes[1]>>)
         /\ \E times \in {1, 2} :
              resources[pair[2]].value =
                clamped(prior[pair[2]].value + delta.delta - times * overflow,
                        0, prior[pair[2]].max)

====
